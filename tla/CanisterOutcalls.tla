-------------------------- MODULE CanisterOutcalls --------------------------
(***************************************************************************)
(* The update methods of canister_entry.c that wait for another canister:  *)
(* queryDictionary, pollContract, fetchEvmLogs and testEvmRpc for the EVM  *)
(* RPC canister, testHttpGet and testEthBlockNumber for the HTTP outcalls  *)
(* of the management canister; with the table of monitored contracts that  *)
(* pollContract reads.                                                     *)
(*                                                                         *)
(* A method parses its arguments into static variables, makes the call and *)
(* returns; a callback of the same method answers later.  Each of the two  *)
(* halves is one message execution, hence atomic, and between them any     *)
(* other message may run.  The callbacks are given env 0 and take what     *)
(* they answer about from the statics.                                     *)
(*                                                                         *)
(* Addresses and selectors are sequences of digits, because registerMonitor *)
(* compares only as many characters as its argument has.  Of a response of *)
(* the EVM RPC canister only the question it answers is kept.  Messages    *)
(* that are refused before any static is written answer an error and leave *)
(* the state alone; they are not actions.                                  *)
(***************************************************************************)
EXTENDS Integers, Sequences, SequencesExt

CONSTANTS
  Addresses,      \* dictionary addresses a caller may name
  Selectors,      \* function selectors a caller may name
  Chains,         \* chain ids a caller may name
  KnownChains,    \* those of them Candid.Chain.fromChainId knows
  Ranges,         \* <<fromBlock, toBlock>> a caller may ask the logs of
  MaxLogs,        \* bound on the log objects in one response
  MaxContracts,   \* MAX_MONITORED_CONTRACTS, 16 in the code
  MaxSelectors,   \* MAX_MONITORED_SELECTORS, 8 in the code
  MaxMessages     \* bound on the messages received

ASSUME OutcallsAssumption ==
  /\ Addresses \subseteq Seq(Nat) /\ Selectors \subseteq Seq(Nat)
  /\ KnownChains \subseteq Chains
  /\ Ranges \subseteq Nat \X Nat
  /\ MaxLogs \in Nat /\ MaxMessages \in Nat
  /\ MaxContracts \in Nat \ {0} /\ MaxSelectors \in Nat \ {0}

VARIABLES
  g_query,              \* <<g_query_dict_addr, g_query_selector>>
  g_monitored,          \* g_monitored_contracts[0 .. g_monitored_count - 1]
  g_batch_contract_idx, \* the contract being polled, -1 when none is
  g_fetch,              \* <<g_fetch_from_block, g_fetch_to_block>>
  events,               \* number of events in the event store
  messages              \* the messages received so far, and their answers

vars == <<g_query, g_monitored, g_batch_contract_idx, g_fetch, events, messages>>

\* The methods that share http_reply_callback and http_reject_callback.
HttpKinds == {"testHttpGet", "testEthBlockNumber"}

Kinds == {"queryDictionary", "pollContract", "fetchEvmLogs", "testEvmRpc"} \cup HttpKinds

\* The contract a poll asks about: its position counts from 0 as in the code.
Contract(idx) == g_monitored[idx + 1]

(* asked is what the request sent out is about; said what the answer says  *)
(* it is about, << >> when it is an error; replies how often               *)
(* msg_reply was executed for the message; alone whether no other message  *)
(* of its method ran while it waited.                                      *)
message(kind, asked, pending, replies) ==
  [ kind |-> kind, asked |-> asked, pending |-> pending, replies |-> replies,
    said |-> << >>,
    alone |-> \A i \in DOMAIN messages :
                messages[i].kind = kind => ~messages[i].pending ]

\* A message of this kind arrives; the ones of its kind that wait lose alone.
Receive(kind, asked, pending, replies) ==
  /\ Len(messages) < MaxMessages
  /\ messages' =
       Append([ i \in DOMAIN messages |->
                  IF messages[i].kind = kind /\ messages[i].pending
                    THEN [messages[i] EXCEPT !.alone = FALSE]
                    ELSE messages[i] ],
              message(kind, asked, pending, replies))

\* reply_candid_text in a callback of message i.
Reply(i, said) ==
  messages' = [messages EXCEPT ![i].pending = FALSE, ![i].said = said,
                               ![i].replies = @ + 1]

Waiting(i, kind) == /\ i \in DOMAIN messages
                    /\ messages[i].pending
                    /\ messages[i].kind = kind

---------------------------------------------------------------------------
(* queryDictionary.                                                        *)

\* Mutated form: the selector of an earlier query is kept.
QueryKeepsSelector(dictionary, selector) ==
  \E pending \in BOOLEAN :
    /\ Receive("queryDictionary", <<dictionary, selector>>, pending,
               IF pending THEN 0 ELSE 1)
    /\ g_query' = <<dictionary, g_query[2]>>
    /\ UNCHANGED <<g_monitored, g_batch_contract_idx, g_fetch, events>>

(* Both statics are written, then the call is made; when call_perform      *)
(* fails the method answers an error itself.                               *)
queryDictionary(dictionary, selector) ==
  \E pending \in BOOLEAN :
    /\ Receive("queryDictionary", <<dictionary, selector>>, pending,
               IF pending THEN 0 ELSE 1)
    /\ g_query' = <<dictionary, selector>>
    /\ UNCHANGED <<g_monitored, g_batch_contract_idx, g_fetch, events>>

\* The address is stored before the length of the selector is looked at.
querySelectorTooLong(dictionary) ==
  /\ Receive("queryDictionary", <<dictionary, << >> >>, FALSE, 1)
  /\ g_query' = [g_query EXCEPT ![1] = dictionary]
  /\ UNCHANGED <<g_monitored, g_batch_contract_idx, g_fetch, events>>

\* The answer names the statics; without "result" in the response, an error.
dict_query_reply_callback(i) ==
  /\ Waiting(i, "queryDictionary")
  /\ Reply(i, <<g_query>>) \/ Reply(i, << >>)
  /\ UNCHANGED <<g_query, g_monitored, g_batch_contract_idx, g_fetch, events>>

dict_query_reject_callback(i) ==
  /\ Waiting(i, "queryDictionary")
  /\ Reply(i, << >>)
  /\ UNCHANGED <<g_query, g_monitored, g_batch_contract_idx, g_fetch, events>>

---------------------------------------------------------------------------
(* registerMonitor.                                                        *)

\* Mutated form: the scan of the table stops one entry early.
FindSkipsLast(dictionary, chain) ==
  SelectInSeq(Front(<<[dictionary |-> << >>, chain_id |-> -1]>> \o g_monitored),
              LAMBDA c : IsPrefix(dictionary, c.dictionary) /\ c.chain_id = chain) - 1

\* The first entry the argument is a prefix of, -1 when there is none.
findMonitored(dictionary, chain) ==
  SelectInSeq(g_monitored, LAMBDA c : /\ IsPrefix(dictionary, c.dictionary)
                                      /\ c.chain_id = chain) - 1

\* A selector is dropped silently when the entry already has MaxSelectors.
addSelector(c, selector) ==
  IF \/ \E j \in DOMAIN c.selectors : IsPrefix(selector, c.selectors[j])
     \/ Len(c.selectors) >= MaxSelectors
    THEN c
    ELSE [c EXCEPT !.selectors = Append(@, selector)]

emptyEntry(dictionary, chain) ==
  [dictionary |-> dictionary, chain_id |-> chain, selectors |-> << >>]

\* Mutated form: the size of the table is not checked.
RegisterNoCap(dictionary, selector, chain) ==
  LET idx == findMonitored(dictionary, chain)
  IN  /\ g_monitored' =
           IF idx >= 0
             THEN [g_monitored EXCEPT ![idx + 1] = addSelector(@, selector)]
             ELSE Append(g_monitored,
                         addSelector(emptyEntry(dictionary, chain), selector))
      /\ UNCHANGED <<g_query, g_batch_contract_idx, g_fetch, events, messages>>

\* Mutated form: when the table is full the last entry is taken over.
RegisterEvicts(dictionary, selector, chain) ==
  LET idx == findMonitored(dictionary, chain)
      new == addSelector(emptyEntry(dictionary, chain), selector)
  IN  /\ g_monitored' =
           IF idx >= 0
             THEN [g_monitored EXCEPT ![idx + 1] = addSelector(@, selector)]
             ELSE IF Len(g_monitored) < MaxContracts
                    THEN Append(g_monitored, new)
                    ELSE [g_monitored EXCEPT ![MaxContracts] = new]
      /\ UNCHANGED <<g_query, g_batch_contract_idx, g_fetch, events, messages>>

\* One message execution: it answers "registered" whatever it did.
registerMonitor(dictionary, selector, chain) ==
  LET idx == findMonitored(dictionary, chain)
  IN  /\ idx >= 0 \/ Len(g_monitored) < MaxContracts
      /\ g_monitored' =
           IF idx >= 0
             THEN [g_monitored EXCEPT ![idx + 1] = addSelector(@, selector)]
             ELSE Append(g_monitored,
                         addSelector(emptyEntry(dictionary, chain), selector))
      /\ UNCHANGED <<g_query, g_batch_contract_idx, g_fetch, events, messages>>

---------------------------------------------------------------------------
(* pollContract.                                                           *)

\* Mutated form: an unknown chain is answered, and polled all the same.
PollGoesOn(idx) ==
  /\ idx < Len(g_monitored) /\ Contract(idx).selectors # << >>
  /\ \E pending \in BOOLEAN :
       /\ Receive("pollContract", idx, pending,
                  IF pending /\ Contract(idx).chain_id \in KnownChains THEN 0 ELSE 1)
       /\ g_batch_contract_idx' = IF pending THEN idx ELSE -1
  /\ UNCHANGED <<g_query, g_monitored, g_fetch, events>>

(* A contract on an unknown chain makes the method return without a reply  *)
(* and before the static is written.  A call that cannot be made is        *)
(* answered at once and resets the static.                                 *)
pollContract(idx) ==
  /\ idx < Len(g_monitored) /\ Contract(idx).selectors # << >>
  /\ IF Contract(idx).chain_id \in KnownChains
       THEN \/ /\ Receive("pollContract", idx, TRUE, 0)
               /\ g_batch_contract_idx' = idx
            \/ /\ Receive("pollContract", idx, FALSE, 1)
               /\ g_batch_contract_idx' = -1
       ELSE /\ Receive("pollContract", idx, FALSE, 0)
            /\ UNCHANGED g_batch_contract_idx
  /\ UNCHANGED <<g_query, g_monitored, g_fetch, events>>

\* Mutated form: the callback gives up when the static was already reset.
BatchReplyOnlyOnce(i) ==
  /\ Waiting(i, "pollContract")
  /\ IF g_batch_contract_idx >= 0
       THEN Reply(i, <<g_batch_contract_idx>>)
       ELSE messages' = [messages EXCEPT ![i].pending = FALSE]
  /\ g_batch_contract_idx' = -1
  /\ UNCHANGED <<g_query, g_monitored, g_fetch, events>>

batch_query_reply_callback(i) ==
  /\ Waiting(i, "pollContract")
  /\ Reply(i, <<g_batch_contract_idx>>)
  /\ g_batch_contract_idx' = -1
  /\ UNCHANGED <<g_query, g_monitored, g_fetch, events>>

batch_query_reject_callback(i) ==
  /\ Waiting(i, "pollContract")
  /\ Reply(i, << >>)
  /\ g_batch_contract_idx' = -1
  /\ UNCHANGED <<g_query, g_monitored, g_fetch, events>>

---------------------------------------------------------------------------
(* fetchEvmLogs.  The address filter goes into the request only, no        *)
(* callback reads it.                                                      *)

fetchEvmLogs(range) ==
  \E pending \in BOOLEAN :
    /\ Receive("fetchEvmLogs", range, pending, IF pending THEN 0 ELSE 1)
    /\ g_fetch' = range
    /\ UNCHANGED <<g_query, g_monitored, g_batch_contract_idx, events>>

\* fromBlock is stored before toBlock is known to be there.
fetchNoToBlock(range) ==
  /\ Receive("fetchEvmLogs", range, FALSE, 1)
  /\ g_fetch' = [g_fetch EXCEPT ![1] = range[1]]
  /\ UNCHANGED <<g_query, g_monitored, g_batch_contract_idx, events>>

(* Every complete log object with an address and a block number is given   *)
(* to the event store, which may fail: the result is not looked at, and    *)
(* the object is counted as stored.                                        *)
parse_and_store_logs(parsed) ==
  \E failed \in 0..parsed : events' = events + (parsed - failed)

\* The answer is <<fromBlock, toBlock, eventsStored>>.
fetch_logs_reply_callback(i) ==
  /\ Waiting(i, "fetchEvmLogs")
  /\ \E parsed \in 0..MaxLogs :
       /\ parse_and_store_logs(parsed)
       /\ Reply(i, <<Append(g_fetch, parsed)>>)
  /\ UNCHANGED <<g_query, g_monitored, g_batch_contract_idx, g_fetch>>

fetch_logs_reject_callback(i) ==
  /\ Waiting(i, "fetchEvmLogs")
  /\ Reply(i, << >>)
  /\ UNCHANGED <<g_query, g_monitored, g_batch_contract_idx, g_fetch, events>>

---------------------------------------------------------------------------
(* testEvmRpc keeps no context: its answer is the response, or the error.  *)

testEvmRpc ==
  \E pending \in BOOLEAN :
    /\ Receive("testEvmRpc", << >>, pending, IF pending THEN 0 ELSE 1)
    /\ UNCHANGED <<g_query, g_monitored, g_batch_contract_idx, g_fetch, events>>

\* The codes of a JSON-RPC error that make it permanent, hence not retryable.
PermanentErrors == {-32700, -32600, -32601, -32602, -32001, -32003}

check_rpc_error(code) == IF code \in PermanentErrors THEN "permanent" ELSE "retryable"

\* Either no JSON, or the JSON as it is, or wrapped with the class of its error.
evm_rpc_reply_callback(i) ==
  /\ Waiting(i, "testEvmRpc")
  /\ \/ Reply(i, << >>)
     \/ Reply(i, <<"rpcResponse">>)
     \/ \E code \in {-32700, -32603} : Reply(i, <<check_rpc_error(code)>>)
  /\ UNCHANGED <<g_query, g_monitored, g_batch_contract_idx, g_fetch, events>>

\* Reject codes SysTransient (2) and CanisterError (5) are retryable.
evm_rpc_reject_callback(i) ==
  /\ Waiting(i, "testEvmRpc")
  /\ \E code \in 1..5 :
       Reply(i, <<IF code \in {2, 5} THEN "retryable" ELSE "permanent">>)
  /\ UNCHANGED <<g_query, g_monitored, g_batch_contract_idx, g_fetch, events>>

---------------------------------------------------------------------------
(* HTTP outcalls.  The two methods share their callbacks and a buffer that *)
(* the reply callback fills and reads within one execution.                *)

testHttp(kind) ==
  \E pending \in BOOLEAN :
    /\ Receive(kind, << >>, pending, IF pending THEN 0 ELSE 1)
    /\ UNCHANGED <<g_query, g_monitored, g_batch_contract_idx, g_fetch, events>>

testHttpGet        == testHttp("testHttpGet")
testEthBlockNumber == testHttp("testEthBlockNumber")

(* What is found in a response: nothing, its status and body, or something *)
(* else, because a response lists status, body and headers, in the order   *)
(* of their hashes, and is read as status, headers and body.  Only with an *)
(* empty body and no headers it makes no difference.                       *)
parse_http_response_body(status, bare) ==
  IF bare THEN {[status |-> status, body |-> "empty"]}
          ELSE [status : {status}, body : {"unreadable", "misread"}]

\* What the answer says about the response: an error, whose kind is left out,
\* unless bytes that were taken for the body look like a JSON-RPC result.
extract_jsonrpc_result(found) ==
  IF found.status = 200 /\ found.body = "misread" THEN {<< >>, <<"rpcResponse">>} ELSE {<< >>}

http_reply_callback(i) ==
  /\ \E kind \in HttpKinds : Waiting(i, kind)
  /\ \E status \in {200, 500}, bare \in BOOLEAN :
       \E found \in parse_http_response_body(status, bare) :
         \E said \in extract_jsonrpc_result(found) : Reply(i, said)
  /\ UNCHANGED <<g_query, g_monitored, g_batch_contract_idx, g_fetch, events>>

http_reject_callback(i) ==
  /\ \E kind \in HttpKinds : Waiting(i, kind)
  /\ Reply(i, << >>)
  /\ UNCHANGED <<g_query, g_monitored, g_batch_contract_idx, g_fetch, events>>

---------------------------------------------------------------------------

Init == /\ g_query = << << >>, << >> >>
        /\ g_monitored = << >>
        /\ g_batch_contract_idx = -1
        /\ g_fetch = <<0, 0>>
        /\ events = 0
        /\ messages = << >>

\* The system delivers to message i the reply or the rejection of its call.
Return(i) == \/ dict_query_reply_callback(i) \/ dict_query_reject_callback(i)
             \/ batch_query_reply_callback(i) \/ batch_query_reject_callback(i)
             \/ fetch_logs_reply_callback(i) \/ fetch_logs_reject_callback(i)
             \/ evm_rpc_reply_callback(i) \/ evm_rpc_reject_callback(i)
             \/ http_reply_callback(i) \/ http_reject_callback(i)

Next == \/ \E d \in Addresses, s \in Selectors : queryDictionary(d, s)
        \/ \E d \in Addresses : querySelectorTooLong(d)
        \/ \E d \in Addresses, s \in Selectors, c \in Chains : registerMonitor(d, s, c)
        \/ \E idx \in 0..(MaxContracts - 1) : pollContract(idx)
        \/ \E r \in Ranges : fetchEvmLogs(r) \/ fetchNoToBlock(r)
        \/ testEvmRpc \/ testHttpGet \/ testEthBlockNumber
        \/ \E i \in 1..MaxMessages : Return(i)

(* A call that was made is answered or rejected by the system, whatever    *)
(* the callee does: the delivery of its callback is fair.                  *)
Spec == Init /\ [][Next]_vars /\ \A i \in 1..MaxMessages : WF_vars(Return(i))

---------------------------------------------------------------------------

\* The types of the statics; the table keeps within its two capacities and
\* the index of the polled contract is -1 or lies inside the table.
OutcallsTypeOK ==
  /\ g_query \in (Addresses \cup {<< >>}) \X (Selectors \cup {<< >>})
  /\ g_fetch \in Nat \X Nat
  /\ events \in Nat
  /\ Len(g_monitored) <= MaxContracts
  /\ \A i \in DOMAIN g_monitored :
       /\ g_monitored[i].dictionary \in Addresses
       /\ g_monitored[i].chain_id \in Chains
       /\ g_monitored[i].selectors \in Seq(Selectors)
       /\ Len(g_monitored[i].selectors) \in 1..MaxSelectors
  /\ g_batch_contract_idx \in -1..(Len(g_monitored) - 1)
  /\ \A i \in DOMAIN messages : /\ messages[i].kind \in Kinds
                                /\ messages[i].replies \in Nat

\* A message is answered at most once, and not before the callback of the
\* call it waits for: no handler replies and leaves a call behind.
OneReplyEach ==
  \A i \in DOMAIN messages :
    messages[i].replies <= IF messages[i].pending THEN 0 ELSE 1

\* What an answer says about: the query asked, the contract polled, the range.
AnswersItsQuestion(m) ==
  m.said # << >> =>
    CASE m.kind = "queryDictionary" -> m.said[1] = m.asked
      [] m.kind = "pollContract"    -> m.said[1] = m.asked
      [] m.kind = "fetchEvmLogs"    -> Front(m.said[1]) = m.asked
      [] OTHER                      -> TRUE

\* The statics are enough as long as the messages of one method do not
\* overlap: a message no other of its method interfered with is answered
\* about what it asked, even right after calls that failed half way.
AnswersTrueWhenAlone ==
  \A i \in DOMAIN messages :
    messages[i].alone => AnswersItsQuestion(messages[i])

\* What the comment on queryDictionary promises (canister_entry.c:2036): the
\* dictionary and the selector in the answer are the ones the implementation
\* was asked for.
DictionaryAnswersMatch ==
  \A i \in DOMAIN messages :
    messages[i].kind = "queryDictionary" => AnswersItsQuestion(messages[i])

\* No entry of the table hides behind an earlier one: a registration that was
\* given a place of its own matches none of the entries before it.
TableUnambiguous ==
  \A i, j \in DOMAIN g_monitored :
    i < j => ~ /\ g_monitored[i].chain_id = g_monitored[j].chain_id
               /\ IsPrefix(g_monitored[j].dictionary, g_monitored[i].dictionary)

\* A contract index handed out stays good, also while a poll of it is under
\* way: no step moves an entry, changes its contract or loses a selector.
EntriesStable ==
  [][ \A i \in DOMAIN g_monitored :
        /\ i \in DOMAIN g_monitored'
        /\ g_monitored'[i].dictionary = g_monitored[i].dictionary
        /\ g_monitored'[i].chain_id = g_monitored[i].chain_id
        /\ IsPrefix(g_monitored[i].selectors, g_monitored'[i].selectors) ]_vars

\* Every message that waits for a callback is answered in the end, in
\* whatever order the callbacks of overlapping messages arrive.
WaitingAnswered ==
  \A i \in 1..MaxMessages :
    (i \in DOMAIN messages /\ messages[i].pending)
      ~> (i \in DOMAIN messages /\ messages[i].replies = 1)
=============================================================================
