----------------------- MODULE CanisterOutcallsProofs -----------------------
(***************************************************************************)
(* Proofs about CanisterOutcalls, for any callers, any order of callbacks  *)
(* and any capacities of the table of monitored contracts.                 *)
(*                                                                         *)
(* Neither OneReplyEach nor AnswersTrueWhenAlone is inductive: a callback  *)
(* answers from the statics, so what it says is right only because the     *)
(* statics still hold what the message asked.  Undisturbed, the part that  *)
(* is added, says so of every message that waits alone, and that no other  *)
(* message of its method waits beside it, whose callback could reset them. *)
(***************************************************************************)
EXTENDS CanisterOutcalls, CommonLemmas

\* The entries of the table.
MonitorEntry ==
  [dictionary : Addresses, chain_id : Chains, selectors : Seq(Selectors)]

\* What a message asks about, and the things an answer may name.
Query     == (Addresses \cup {<< >>}) \X (Selectors \cup {<< >>})
Questions == Query \cup Nat \cup (Nat \X Nat) \cup {<< >>}
Sayings   == Query \cup Int \cup Seq(Nat) \cup {"rpcResponse", "permanent", "retryable"}

Message == [ kind : Kinds, asked : Questions, pending : BOOLEAN, replies : Nat,
             said : Seq(Sayings), alone : BOOLEAN ]

\* The statics hold what a message of this kind asked.
Stands(kind, asked) ==
  /\ kind = "queryDictionary" => g_query = asked
  /\ kind = "pollContract"    => g_batch_contract_idx = asked
  /\ kind = "fetchEvmLogs"    => g_fetch = asked

\* A message that waits alone is the only one of its kind that waits, and the
\* statics are as it left them.
Undisturbed ==
  \A i \in DOMAIN messages :
    messages[i].pending /\ messages[i].alone =>
      /\ Stands(messages[i].kind, messages[i].asked)
      /\ \A j \in DOMAIN messages :
           messages[j].kind = messages[i].kind /\ messages[j].pending => j = i

MessageInv ==
  /\ messages \in Seq(Message)
  /\ OneReplyEach
  /\ AnswersTrueWhenAlone
  /\ Undisturbed

TableInv ==
  /\ g_monitored \in Seq(MonitorEntry)
  /\ Len(g_monitored) <= MaxContracts
  /\ \A i \in DOMAIN g_monitored :
       Len(g_monitored[i].selectors) \in 1..MaxSelectors
  /\ TableUnambiguous

StaticsInv ==
  /\ g_query \in Query
  /\ g_fetch \in Nat \X Nat
  /\ events \in Nat
  /\ g_batch_contract_idx \in -1..(Len(g_monitored) - 1)

OutcallsInv == MessageInv /\ TableInv /\ StaticsInv

---------------------------------------------------------------------------
(* The messages.                                                           *)

\* A message that arrives is appended; of the others only alone changes.
LEMMA Received ==
  ASSUME MessageInv,
         NEW kind \in Kinds, NEW asked \in Questions, NEW pending \in BOOLEAN,
         NEW replies \in Nat, Receive(kind, asked, pending, replies)
  PROVE  LET n == Len(messages)
             m == messages'
         IN  /\ n \in Nat /\ DOMAIN messages = 1..n /\ DOMAIN m = 1..(n + 1)
             /\ m \in Seq(Message)
             /\ \A i \in 1..n :
                  /\ m[i].kind = messages[i].kind /\ m[i].asked = messages[i].asked
                  /\ m[i].pending <=> messages[i].pending
                  /\ m[i].replies = messages[i].replies
                  /\ m[i].said = messages[i].said
                  /\ m[i].alone => /\ messages[i].alone
                                   /\ ~ (messages[i].kind = kind /\ messages[i].pending)
             /\ m[n + 1].kind = kind /\ m[n + 1].asked = asked
             /\ m[n + 1].pending <=> pending
             /\ m[n + 1].replies = replies /\ m[n + 1].said = << >>
             /\ m[n + 1].alone <=> \A i \in 1..n :
                                     messages[i].kind = kind => ~messages[i].pending
<1> DEFINE n == Len(messages)
           old == [ i \in DOMAIN messages |->
                      IF messages[i].kind = kind /\ messages[i].pending
                        THEN [messages[i] EXCEPT !.alone = FALSE]
                        ELSE messages[i] ]
           new == message(kind, asked, pending, replies)
<1>1. n \in Nat /\ DOMAIN messages = 1..n /\ messages' = Append(old, new)
  BY DEF MessageInv, Receive
<1>2. \A i \in 1..n : messages[i] \in Message
  BY <1>1 DEF MessageInv
<1>3. ASSUME NEW i \in 1..n
      PROVE  /\ old[i] \in Message
             /\ old[i].kind = messages[i].kind /\ old[i].asked = messages[i].asked
             /\ old[i].pending <=> messages[i].pending
             /\ old[i].replies = messages[i].replies
             /\ old[i].said = messages[i].said
             /\ old[i].alone => /\ messages[i].alone
                                /\ ~ (messages[i].kind = kind /\ messages[i].pending)
  <2>1. CASE messages[i].kind = kind /\ messages[i].pending
    <3>1. old[i] = [messages[i] EXCEPT !.alone = FALSE]
      BY <1>1, <2>1
    <3>2. messages[i] \in Message
      BY <1>2
    <3>3. old[i] \in Message
      BY <3>1, <3>2 DEF Message
    <3>4. /\ old[i].kind = messages[i].kind /\ old[i].asked = messages[i].asked
          /\ old[i].pending = messages[i].pending
          /\ old[i].replies = messages[i].replies
          /\ old[i].said = messages[i].said
      BY <3>1, <3>2 DEF Message
    <3>5. old[i].alone = FALSE
      BY <3>1, <3>2 DEF Message
    <3> HIDE DEF old
    <3> QED BY <3>3, <3>4, <3>5
  <2>2. CASE ~ (messages[i].kind = kind /\ messages[i].pending)
    <3>1. old[i] = messages[i]
      BY <1>1, <2>2
    <3> QED BY <1>2, <2>2, <3>1
  <2> QED BY <2>1, <2>2
<1>4. old \in Seq(Message) /\ Len(old) = n
  <2>1. old \in [1..n -> Message]
    BY <1>1, <1>3
  <2> HIDE DEF old
  <2> QED BY <1>1, <2>1
<1>5. /\ new \in Message
      /\ new.kind = kind /\ new.asked = asked /\ new.replies = replies /\ new.said = << >>
      /\ new.pending <=> pending
      /\ new.alone <=> \A i \in 1..n : messages[i].kind = kind => ~messages[i].pending
  BY <1>1 DEF message, Message
<1> HIDE DEF old, new, n
<1>6. /\ messages' \in Seq(Message) /\ DOMAIN messages' = 1..(n + 1)
      /\ messages'[n + 1] = new
      /\ \A i \in 1..n : messages'[i] = old[i]
  BY <1>1, <1>4, <1>5
<1>7. /\ n \in Nat /\ DOMAIN messages = 1..n /\ DOMAIN messages' = 1..(n + 1)
      /\ messages' \in Seq(Message)
      /\ \A i \in 1..n :
           /\ messages'[i].kind = messages[i].kind /\ messages'[i].asked = messages[i].asked
           /\ messages'[i].pending <=> messages[i].pending
           /\ messages'[i].replies = messages[i].replies
           /\ messages'[i].said = messages[i].said
           /\ messages'[i].alone => /\ messages[i].alone
                                    /\ ~ (messages[i].kind = kind /\ messages[i].pending)
  BY <1>1, <1>3, <1>6
<1> QED BY <1>5, <1>6, <1>7 DEF n

\* A message of which at most a call is left keeps the invariant, when the
\* statics of the other methods stay and those of its own are what it asks.
LEMMA ReceiveKeeps ==
  ASSUME MessageInv,
         NEW kind \in Kinds, NEW asked \in Questions, NEW pending \in BOOLEAN,
         NEW replies \in Nat, Receive(kind, asked, pending, replies),
         replies <= IF pending THEN 0 ELSE 1,
         \A k \in Kinds \ {kind} : \A a : Stands(k, a) => Stands(k, a)',
         pending => Stands(kind, asked)'
  PROVE  MessageInv'
<1> DEFINE n == Len(messages)
<1>1. /\ n \in Nat /\ DOMAIN messages = 1..n /\ DOMAIN messages' = 1..(n + 1)
      /\ messages' \in Seq(Message)
      /\ messages'[n + 1].kind = kind /\ messages'[n + 1].asked = asked
      /\ messages'[n + 1].pending <=> pending
      /\ messages'[n + 1].replies = replies /\ messages'[n + 1].said = << >>
      /\ messages'[n + 1].alone <=> \A i \in 1..n :
                                      messages[i].kind = kind => ~messages[i].pending
  BY Received
<1>2. ASSUME NEW i \in 1..n
      PROVE  /\ messages'[i].kind = messages[i].kind
             /\ messages'[i].asked = messages[i].asked
             /\ messages'[i].pending <=> messages[i].pending
             /\ messages'[i].replies = messages[i].replies
             /\ messages'[i].said = messages[i].said
             /\ messages'[i].alone => /\ messages[i].alone
                                      /\ ~ (messages[i].kind = kind /\ messages[i].pending)
  BY <1>2, Received
<1>3. \A i \in 1..(n + 1) : i \in 1..n \/ i = n + 1
  BY <1>1
<1>4. \A i \in 1..n : messages[i] \in Message
  BY <1>1 DEF MessageInv
<1> HIDE DEF n
<1>5. OneReplyEach'
  <2>1. ASSUME NEW i \in 1..n
        PROVE  messages'[i].replies <= IF messages'[i].pending THEN 0 ELSE 1
    BY <1>1, <1>2, <1>4 DEF MessageInv, OneReplyEach
  <2>2. messages'[n + 1].replies <= IF messages'[n + 1].pending THEN 0 ELSE 1
    BY <1>1
  <2> QED BY <1>1, <1>3, <2>1, <2>2 DEF OneReplyEach
<1>6. AnswersTrueWhenAlone'
  <2>1. ASSUME NEW i \in 1..n, messages'[i].alone
        PROVE  AnswersItsQuestion(messages'[i])
    <3>1. AnswersItsQuestion(messages[i])
      BY <1>1, <1>2, <2>1 DEF MessageInv, AnswersTrueWhenAlone
    <3> QED BY <1>2, <3>1 DEF AnswersItsQuestion
  <2>2. AnswersItsQuestion(messages'[n + 1])
    BY <1>1 DEF AnswersItsQuestion
  <2> QED BY <1>1, <1>3, <2>1, <2>2 DEF AnswersTrueWhenAlone, AnswersItsQuestion
<1>7. Undisturbed'
  <2>1. ASSUME NEW i \in 1..n, messages'[i].pending, messages'[i].alone
        PROVE  /\ messages'[i].kind = "queryDictionary" => g_query' = messages'[i].asked
               /\ messages'[i].kind = "pollContract" => g_batch_contract_idx' = messages'[i].asked
               /\ messages'[i].kind = "fetchEvmLogs" => g_fetch' = messages'[i].asked
               /\ \A j \in 1..(n + 1) :
                    messages'[j].kind = messages'[i].kind /\ messages'[j].pending => j = i
    <3>1. messages[i].pending /\ messages[i].alone /\ messages[i].kind # kind
      BY <1>2, <2>1
    <3>2. /\ Stands(messages[i].kind, messages[i].asked)
          /\ \A j \in 1..n :
               messages[j].kind = messages[i].kind /\ messages[j].pending => j = i
      BY <1>1, <3>1 DEF MessageInv, Undisturbed
    <3>3. messages[i].kind \in Kinds \ {kind}
      BY <1>4, <3>1 DEF Message
    <3>4. /\ messages[i].kind = "queryDictionary" => g_query' = messages[i].asked
          /\ messages[i].kind = "pollContract" => g_batch_contract_idx' = messages[i].asked
          /\ messages[i].kind = "fetchEvmLogs" => g_fetch' = messages[i].asked
      BY <3>2, <3>3 DEF Stands
    <3>5. messages'[n + 1].kind # messages'[i].kind
      BY <1>1, <1>2, <3>1
    <3> QED BY <1>2, <1>3, <3>2, <3>4, <3>5
  <2>2. ASSUME messages'[n + 1].pending, messages'[n + 1].alone
        PROVE  /\ kind = "queryDictionary" => g_query' = asked
               /\ kind = "pollContract" => g_batch_contract_idx' = asked
               /\ kind = "fetchEvmLogs" => g_fetch' = asked
               /\ \A j \in 1..(n + 1) :
                    messages'[j].kind = kind /\ messages'[j].pending => j = n + 1
    <3>1. Stands(kind, asked)'
      BY <1>1, <2>2
    <3>2. \A j \in 1..n : ~ (messages'[j].kind = kind /\ messages'[j].pending)
      BY <1>1, <1>2, <2>2
    <3> QED BY <1>3, <3>1, <3>2 DEF Stands
  <2>3. ASSUME NEW i \in 1..(n + 1), messages'[i].pending, messages'[i].alone
        PROVE  /\ messages'[i].kind = "queryDictionary" => g_query' = messages'[i].asked
               /\ messages'[i].kind = "pollContract" => g_batch_contract_idx' = messages'[i].asked
               /\ messages'[i].kind = "fetchEvmLogs" => g_fetch' = messages'[i].asked
               /\ \A j \in 1..(n + 1) :
                    messages'[j].kind = messages'[i].kind /\ messages'[j].pending => j = i
    <3>1. CASE i \in 1..n
      BY <2>1, <2>3, <3>1
    <3>2. CASE i = n + 1
      BY <1>1, <2>2, <2>3, <3>2
    <3> QED BY <1>3, <3>1, <3>2
  <2> QED BY <1>1, <2>3 DEF Undisturbed, Stands
<1> QED BY <1>1, <1>5, <1>6, <1>7 DEF MessageInv

\* A message that makes no call, and one that makes it.
LEMMA ReceiveRefusedKeeps ==
  ASSUME MessageInv, NEW kind \in Kinds, NEW asked \in Questions, NEW replies \in {0, 1},
         Receive(kind, asked, FALSE, replies),
         \A k \in Kinds \ {kind} : \A a : Stands(k, a) => Stands(k, a)'
  PROVE  MessageInv'
<1> DEFINE pending == FALSE
<1>1. Receive(kind, asked, pending, replies)
  OBVIOUS
<1>2. pending = FALSE
  OBVIOUS
<1> HIDE DEF pending
<1>3. replies \in Nat /\ replies <= IF pending THEN 0 ELSE 1
  BY <1>2
<1> QED BY <1>1, <1>2, <1>3, ReceiveKeeps

LEMMA ReceiveCallKeeps ==
  ASSUME MessageInv, NEW kind \in Kinds, NEW asked \in Questions,
         Receive(kind, asked, TRUE, 0),
         \A k \in Kinds \ {kind} : \A a : Stands(k, a) => Stands(k, a)',
         Stands(kind, asked)'
  PROVE  MessageInv'
<1> DEFINE pending == TRUE
           replies == 0
<1>1. Receive(kind, asked, pending, replies)
  OBVIOUS
<1>2. pending = TRUE
  OBVIOUS
<1>3. replies = 0
  OBVIOUS
<1> HIDE DEF pending, replies
<1>4. replies \in Nat /\ replies <= IF pending THEN 0 ELSE 1
  BY <1>2, <1>3
<1> QED BY <1>1, <1>2, <1>4, ReceiveKeeps

\* A message that is answered: it no longer waits, the others are untouched.
LEMMA Replied ==
  ASSUME MessageInv, NEW i \in DOMAIN messages, NEW said \in Seq(Sayings),
         Reply(i, said)
  PROVE  /\ DOMAIN messages' = DOMAIN messages /\ messages' \in Seq(Message)
         /\ \A j \in DOMAIN messages : j # i => messages'[j] = messages[j]
         /\ messages'[i].kind = messages[i].kind /\ messages'[i].asked = messages[i].asked
         /\ ~messages'[i].pending /\ messages'[i].said = said
         /\ messages'[i].replies = messages[i].replies + 1
         /\ messages'[i].alone <=> messages[i].alone
<1> DEFINE answered == [messages[i] EXCEPT !.pending = FALSE, !.said = said, !.replies = @ + 1]
<1>1. messages \in Seq(Message) /\ messages[i] \in Message
  BY DEF MessageInv
<1>2. messages' = [messages EXCEPT ![i] = answered]
  BY <1>1 DEF Reply
<1>3. /\ answered \in Message
      /\ answered.kind = messages[i].kind /\ answered.asked = messages[i].asked
      /\ ~answered.pending /\ answered.said = said
      /\ answered.replies = messages[i].replies + 1
      /\ answered.alone <=> messages[i].alone
  <2>1. answered \in Message
    <3> DEFINE m == messages[i]
               T == Seq(Sayings)
               r == m.replies + 1
    <3>1. m \in [ kind : Kinds, asked : Questions, pending : BOOLEAN, replies : Nat,
                  said : T, alone : BOOLEAN ]
      BY <1>1 DEF Message
    <3>2. r \in Nat /\ said \in T
      BY <3>1
    <3>3. answered = [m EXCEPT !.pending = FALSE, !.said = said, !.replies = r]
      OBVIOUS
    <3> HIDE DEF m, r, T
    <3>4. [m EXCEPT !.pending = FALSE, !.said = said, !.replies = r] \in
            [ kind : Kinds, asked : Questions, pending : BOOLEAN, replies : Nat,
              said : T, alone : BOOLEAN ]
      BY <3>1, <3>2
    <3> QED BY <3>3, <3>4 DEF Message, T
  <2>2. /\ answered.kind = messages[i].kind /\ answered.asked = messages[i].asked
        /\ answered.replies = messages[i].replies + 1 /\ answered.said = said
        /\ answered.alone = messages[i].alone
    BY <1>1 DEF Message
  <2>3. answered.pending = FALSE
    BY <1>1 DEF Message
  <2> HIDE DEF answered
  <2> QED BY <2>1, <2>2, <2>3
<1> HIDE DEF answered
<1>4. /\ DOMAIN messages' = DOMAIN messages /\ messages' \in Seq(Message)
      /\ messages'[i] = answered
      /\ \A j \in DOMAIN messages : j # i => messages'[j] = messages[j]
  BY <1>1, <1>2, <1>3
<1> QED BY <1>3, <1>4

\* A callback that answers truly as long as the statics hold what its message
\* asked keeps the invariant, when it leaves the statics of other methods.
LEMMA ReplyKeeps ==
  ASSUME MessageInv, NEW kind \in Kinds, NEW i, Waiting(i, kind),
         NEW said \in Seq(Sayings), Reply(i, said),
         Stands(kind, messages[i].asked) =>
           AnswersItsQuestion([messages[i] EXCEPT !.said = said]),
         \A k \in Kinds \ {kind} : \A a : Stands(k, a) => Stands(k, a)'
  PROVE  MessageInv'
<1>1. i \in DOMAIN messages /\ messages[i].pending /\ messages[i].kind = kind
  BY DEF Waiting
<1>2. /\ DOMAIN messages' = DOMAIN messages /\ messages' \in Seq(Message)
      /\ \A j \in DOMAIN messages : j # i => messages'[j] = messages[j]
      /\ messages'[i].kind = messages[i].kind /\ messages'[i].asked = messages[i].asked
      /\ ~messages'[i].pending /\ messages'[i].said = said
      /\ messages'[i].replies = messages[i].replies + 1
      /\ messages'[i].alone <=> messages[i].alone
  BY <1>1, Replied
<1>3. \A j \in DOMAIN messages : messages[j] \in Message
  BY DEF MessageInv
<1>4. OneReplyEach'
  <2>1. messages[i].replies = 0
    BY <1>1, <1>3 DEF MessageInv, OneReplyEach, Message
  <2> QED BY <1>2, <2>1 DEF MessageInv, OneReplyEach
<1>5. AnswersTrueWhenAlone'
  <2>1. ASSUME messages[i].alone
        PROVE  AnswersItsQuestion(messages'[i])
    <3>1. AnswersItsQuestion([messages[i] EXCEPT !.said = said])
      BY <1>1, <2>1 DEF MessageInv, Undisturbed
    <3>2. /\ [messages[i] EXCEPT !.said = said].kind = messages[i].kind
          /\ [messages[i] EXCEPT !.said = said].asked = messages[i].asked
          /\ [messages[i] EXCEPT !.said = said].said = said
      BY <1>1, <1>3 DEF Message
    <3> QED BY <1>2, <3>1, <3>2 DEF AnswersItsQuestion
  <2>2. ASSUME NEW j \in DOMAIN messages, messages'[j].alone
        PROVE  AnswersItsQuestion(messages'[j])
    <3>1. CASE j = i
      BY <1>2, <2>1, <2>2, <3>1
    <3>2. CASE j # i
      BY <1>2, <2>2, <3>2 DEF MessageInv, AnswersTrueWhenAlone, AnswersItsQuestion
    <3> QED BY <3>1, <3>2
  <2> QED BY <1>2, <2>2 DEF AnswersTrueWhenAlone, AnswersItsQuestion
<1>6. Undisturbed'
  <2>1. ASSUME NEW j \in DOMAIN messages, messages'[j].pending, messages'[j].alone
        PROVE  /\ messages'[j].kind = "queryDictionary" => g_query' = messages'[j].asked
               /\ messages'[j].kind = "pollContract" => g_batch_contract_idx' = messages'[j].asked
               /\ messages'[j].kind = "fetchEvmLogs" => g_fetch' = messages'[j].asked
               /\ \A k \in DOMAIN messages :
                    messages'[k].kind = messages'[j].kind /\ messages'[k].pending => k = j
    <3>1. j # i /\ messages'[j] = messages[j]
      BY <1>2, <2>1
    <3>2. /\ Stands(messages[j].kind, messages[j].asked)
          /\ \A k \in DOMAIN messages :
               messages[k].kind = messages[j].kind /\ messages[k].pending => k = j
      BY <2>1, <3>1 DEF MessageInv, Undisturbed
    <3>3. messages[j].kind \in Kinds \ {kind}
      BY <1>1, <1>3, <3>1, <3>2 DEF Message
    <3>4. /\ messages[j].kind = "queryDictionary" => g_query' = messages[j].asked
          /\ messages[j].kind = "pollContract" => g_batch_contract_idx' = messages[j].asked
          /\ messages[j].kind = "fetchEvmLogs" => g_fetch' = messages[j].asked
      BY <3>2, <3>3 DEF Stands
    <3> QED BY <1>2, <3>1, <3>2, <3>4
  <2> QED BY <1>2, <2>1 DEF Undisturbed, Stands
<1> QED BY <1>2, <1>4, <1>5, <1>6 DEF MessageInv

---------------------------------------------------------------------------
(* The table of monitored contracts.                                       *)

\* The lookup answers a position counted from 0, or -1 when no entry fits.
LEMMA FindMonitoredProperties ==
  ASSUME g_monitored \in Seq(MonitorEntry), NEW dictionary, NEW chain
  PROVE  /\ findMonitored(dictionary, chain) \in -1..(Len(g_monitored) - 1)
         /\ findMonitored(dictionary, chain) = -1 =>
              \A i \in DOMAIN g_monitored :
                ~ (/\ g_monitored[i].chain_id = chain
                   /\ IsPrefix(dictionary, g_monitored[i].dictionary))
<1> DEFINE I == { i \in 1..Len(g_monitored) :
                    /\ IsPrefix(dictionary, g_monitored[i].dictionary)
                    /\ g_monitored[i].chain_id = chain }
<1>1. findMonitored(dictionary, chain) = (IF I # {} THEN Min(I) ELSE 0) - 1
  BY DEF findMonitored, SelectInSeq
<1>2. Len(g_monitored) \in Nat /\ DOMAIN g_monitored = 1..Len(g_monitored)
  OBVIOUS
<1>3. CASE I = {}
  <2>1. findMonitored(dictionary, chain) = -1
    BY <1>1, <1>3
  <2> QED BY <1>2, <1>3, <2>1
<1>4. CASE I # {}
  <2>1. I \in SUBSET Nat
    BY <1>2
  <2>2. Min(I) \in I
    BY <1>4, <2>1, MinProperties
  <2>3. Min(I) \in 1..Len(g_monitored)
    BY <2>2
  <2> HIDE DEF I
  <2> QED BY <1>1, <1>2, <1>4, <2>3
<1> QED BY <1>3, <1>4

\* Adding a selector keeps the contract and the selectors that are there, and
\* leaves at least one and at most MaxSelectors of them.
LEMMA AddSelectorProperties ==
  ASSUME NEW c \in MonitorEntry, Len(c.selectors) <= MaxSelectors,
         NEW selector \in Selectors
  PROVE  LET added == addSelector(c, selector)
         IN  /\ added \in MonitorEntry
             /\ added.dictionary = c.dictionary /\ added.chain_id = c.chain_id
             /\ IsPrefix(c.selectors, added.selectors)
             /\ Len(added.selectors) \in 1..MaxSelectors
<1> DEFINE added == addSelector(c, selector)
           full == \/ \E j \in DOMAIN c.selectors : IsPrefix(selector, c.selectors[j])
                   \/ Len(c.selectors) >= MaxSelectors
           longer == Append(c.selectors, selector)
<1>1. c.selectors \in Seq(Selectors) /\ Len(c.selectors) \in Nat
      /\ DOMAIN c.selectors = 1..Len(c.selectors)
      /\ MaxSelectors \in Nat /\ MaxSelectors >= 1
  BY OutcallsAssumption DEF MonitorEntry
<1>2. IsPrefix(c.selectors, c.selectors) /\ IsPrefix(c.selectors, longer)
  BY <1>1, PrefixAppend
<1>3. CASE full
  <2>1. added = c
    BY <1>3 DEF addSelector
  <2>2. Len(c.selectors) >= 1
    BY <1>1, <1>3
  <2> QED BY <1>1, <1>2, <2>1, <2>2
<1>4. CASE ~full
  <2>1. added = [c EXCEPT !.selectors = longer]
    BY <1>4 DEF addSelector
  <2>2. longer \in Seq(Selectors) /\ Len(longer) = Len(c.selectors) + 1
    BY <1>1
  <2>3. Len(c.selectors) < MaxSelectors
    BY <1>1, <1>4
  <2> HIDE DEF added, longer
  <2>4. /\ added \in MonitorEntry
        /\ added.dictionary = c.dictionary /\ added.chain_id = c.chain_id
        /\ added.selectors = longer
    BY <2>1, <2>2 DEF MonitorEntry
  <2> QED BY <1>1, <1>2, <2>2, <2>3, <2>4 DEF added
<1> QED BY <1>3, <1>4

\* A registration keeps the table in order and every entry where it is.
LEMMA RegisterKeeps ==
  ASSUME TableInv, NEW d \in Addresses, NEW s \in Selectors, NEW chain \in Chains,
         registerMonitor(d, s, chain)
  PROVE  /\ TableInv'
         /\ Len(g_monitored') >= Len(g_monitored)
         /\ \A i \in DOMAIN g_monitored :
              /\ i \in DOMAIN g_monitored'
              /\ g_monitored'[i].dictionary = g_monitored[i].dictionary
              /\ g_monitored'[i].chain_id = g_monitored[i].chain_id
              /\ IsPrefix(g_monitored[i].selectors, g_monitored'[i].selectors)
<1> DEFINE n == Len(g_monitored)
           idx == findMonitored(d, chain)
           at == addSelector(g_monitored[idx + 1], s)
           new == addSelector(emptyEntry(d, chain), s)
<1>1. /\ n \in Nat /\ n <= MaxContracts /\ MaxContracts \in Nat /\ MaxSelectors \in Nat
      /\ DOMAIN g_monitored = 1..n
      /\ g_monitored \in Seq(MonitorEntry)
      /\ \A i \in 1..n : /\ g_monitored[i] \in MonitorEntry
                         /\ Len(g_monitored[i].selectors) \in 1..MaxSelectors
  BY OutcallsAssumption DEF TableInv
<1>2. /\ idx \in -1..(n - 1)
      /\ idx = -1 => \A i \in 1..n : ~ (/\ g_monitored[i].chain_id = chain
                                        /\ IsPrefix(d, g_monitored[i].dictionary))
  BY <1>1, FindMonitoredProperties
<1>3. \A i \in 1..n : IsPrefix(g_monitored[i].selectors, g_monitored[i].selectors)
  BY <1>1, SubSeqFull DEF IsPrefix, MonitorEntry
<1>4. CASE idx >= 0
  <2>1. idx + 1 \in 1..n
    BY <1>1, <1>2, <1>4
  <2>2. g_monitored' = [g_monitored EXCEPT ![idx + 1] = at]
    BY <1>4 DEF registerMonitor
  <2>3. /\ at \in MonitorEntry
        /\ at.dictionary = g_monitored[idx + 1].dictionary
        /\ at.chain_id = g_monitored[idx + 1].chain_id
        /\ IsPrefix(g_monitored[idx + 1].selectors, at.selectors)
        /\ Len(at.selectors) \in 1..MaxSelectors
    BY <1>1, <2>1, AddSelectorProperties
  <2> HIDE DEF at, idx, n
  <2>4. /\ g_monitored' \in Seq(MonitorEntry) /\ Len(g_monitored') = n
        /\ DOMAIN g_monitored' = 1..n
        /\ g_monitored'[idx + 1] = at
        /\ \A i \in 1..n : i # idx + 1 => g_monitored'[i] = g_monitored[i]
    BY <1>1, <2>1, <2>2, <2>3 DEF n
  <2>5. ASSUME NEW i \in 1..n
        PROVE  /\ g_monitored'[i].dictionary = g_monitored[i].dictionary
               /\ g_monitored'[i].chain_id = g_monitored[i].chain_id
               /\ IsPrefix(g_monitored[i].selectors, g_monitored'[i].selectors)
               /\ Len(g_monitored'[i].selectors) \in 1..MaxSelectors
    BY <1>1, <1>3, <2>3, <2>4
  <2>6. TableUnambiguous'
    BY <1>1, <2>4, <2>5 DEF TableInv, TableUnambiguous
  <2> QED BY <1>1, <2>4, <2>5, <2>6 DEF TableInv, n
<1>5. CASE idx < 0
  <2>1. n < MaxContracts /\ g_monitored' = Append(g_monitored, new)
    <3>1. ~ (idx >= 0)
      BY <1>1, <1>2, <1>5
    <3> QED BY <3>1, Zenon DEF registerMonitor
  <2>2. /\ emptyEntry(d, chain) \in MonitorEntry
        /\ emptyEntry(d, chain).dictionary = d /\ emptyEntry(d, chain).chain_id = chain
        /\ Len(emptyEntry(d, chain).selectors) <= MaxSelectors
    BY <1>1 DEF emptyEntry, MonitorEntry
  <2>3. /\ new \in MonitorEntry /\ new.dictionary = d /\ new.chain_id = chain
        /\ Len(new.selectors) \in 1..MaxSelectors
    BY <2>2, AddSelectorProperties
  <2>4. idx = -1
    BY <1>1, <1>2, <1>5
  <2> HIDE DEF new, n, idx
  <2>5. /\ g_monitored' \in Seq(MonitorEntry) /\ Len(g_monitored') = n + 1
        /\ DOMAIN g_monitored' = 1..(n + 1)
        /\ g_monitored'[n + 1] = new
        /\ \A i \in 1..n : i \in 1..(n + 1) /\ g_monitored'[i] = g_monitored[i]
        /\ \A i \in 1..(n + 1) : i \in 1..n \/ i = n + 1
    BY <1>1, <2>1, <2>3 DEF n
  <2>6. ASSUME NEW i \in 1..(n + 1), NEW j \in 1..(n + 1), i < j
        PROVE  ~ (/\ g_monitored'[i].chain_id = g_monitored'[j].chain_id
                  /\ IsPrefix(g_monitored'[j].dictionary, g_monitored'[i].dictionary))
    <3>1. i \in 1..n /\ g_monitored'[i] = g_monitored[i]
      BY <1>1, <2>5, <2>6
    <3>2. CASE j = n + 1
      BY <1>2, <2>3, <2>4, <2>5, <3>1, <3>2
    <3>3. CASE j \in 1..n
      BY <1>1, <2>5, <2>6, <3>1, <3>3 DEF TableInv, TableUnambiguous
    <3> QED BY <2>5, <3>2, <3>3
  <2>7. TableUnambiguous'
    BY <2>5, <2>6 DEF TableUnambiguous
  <2>8. \A i \in 1..(n + 1) : Len(g_monitored'[i].selectors) \in 1..MaxSelectors
    BY <1>1, <2>3, <2>5
  <2> QED BY <1>1, <1>3, <2>1, <2>5, <2>7, <2>8 DEF TableInv, n
<1> QED BY <1>1, <1>2, <1>4, <1>5

---------------------------------------------------------------------------
(* The messages that make a call.                                          *)

LEMMA TableUntouched ==
  ASSUME TableInv, UNCHANGED g_monitored
  PROVE  TableInv'
  BY DEF TableInv, TableUnambiguous

LEMMA QueryKeeps ==
  ASSUME OutcallsInv, NEW d \in Addresses, NEW s \in Selectors, queryDictionary(d, s)
  PROVE  OutcallsInv'
<1>1. PICK pending \in BOOLEAN :
        /\ Receive("queryDictionary", <<d, s>>, pending, IF pending THEN 0 ELSE 1)
        /\ g_query' = <<d, s>>
        /\ UNCHANGED <<g_monitored, g_batch_contract_idx, g_fetch, events>>
  BY DEF queryDictionary
<1>2. <<d, s>> \in Query /\ <<d, s>> \in Questions /\ "queryDictionary" \in Kinds
  BY DEF Query, Questions, Kinds
<1>3. /\ \A k \in Kinds \ {"queryDictionary"} : \A a : Stands(k, a) => Stands(k, a)'
      /\ pending => Stands("queryDictionary", <<d, s>>)'
  BY <1>1 DEF Stands
<1>4. MessageInv'
  <2> DEFINE replies == IF pending THEN 0 ELSE 1
  <2>1. replies \in Nat /\ replies <= IF pending THEN 0 ELSE 1
    OBVIOUS
  <2>2. Receive("queryDictionary", <<d, s>>, pending, replies)
    BY <1>1
  <2> HIDE DEF replies
  <2> QED BY <1>2, <1>3, <2>1, <2>2, ReceiveKeeps DEF OutcallsInv
<1>5. TableInv' /\ StaticsInv'
  BY <1>1, <1>2, TableUntouched DEF OutcallsInv, StaticsInv
<1> QED BY <1>4, <1>5 DEF OutcallsInv

LEMMA QueryTooLongKeeps ==
  ASSUME OutcallsInv, NEW d \in Addresses, querySelectorTooLong(d)
  PROVE  OutcallsInv'
<1>1. /\ Receive("queryDictionary", <<d, << >> >>, FALSE, 1)
      /\ g_query' = [g_query EXCEPT ![1] = d]
      /\ UNCHANGED <<g_monitored, g_batch_contract_idx, g_fetch, events>>
  BY DEF querySelectorTooLong
<1>2. <<d, << >> >> \in Questions /\ "queryDictionary" \in Kinds
  BY DEF Query, Questions, Kinds
<1>3. g_query' \in Query
  <2>1. g_query \in (Addresses \cup {<< >>}) \X (Selectors \cup {<< >>})
    BY DEF OutcallsInv, StaticsInv, Query
  <2>2. g_query' = <<d, g_query[2]>>
    BY <1>1, <2>1
  <2> QED BY <2>1, <2>2 DEF Query
<1>4. \A k \in Kinds \ {"queryDictionary"} : \A a : Stands(k, a) => Stands(k, a)'
  BY <1>1 DEF Stands
<1>5. MessageInv'
  BY <1>1, <1>2, <1>4, ReceiveRefusedKeeps DEF OutcallsInv
<1>6. TableInv' /\ StaticsInv'
  BY <1>1, <1>3, TableUntouched DEF OutcallsInv, StaticsInv
<1> QED BY <1>5, <1>6 DEF OutcallsInv

LEMMA PollKeeps ==
  ASSUME OutcallsInv, NEW idx \in 0..(MaxContracts - 1), pollContract(idx)
  PROVE  OutcallsInv'
<1>1. /\ idx < Len(g_monitored)
      /\ \/ /\ Receive("pollContract", idx, TRUE, 0)
            /\ g_batch_contract_idx' = idx
         \/ /\ Receive("pollContract", idx, FALSE, 1)
            /\ g_batch_contract_idx' = -1
         \/ /\ Receive("pollContract", idx, FALSE, 0)
            /\ UNCHANGED g_batch_contract_idx
      /\ UNCHANGED <<g_query, g_monitored, g_fetch, events>>
  BY DEF pollContract
<1>2. idx \in Nat /\ idx \in Questions /\ "pollContract" \in Kinds
  BY OutcallsAssumption DEF Questions, Kinds
<1>3. /\ \A k \in Kinds \ {"pollContract"} : \A a : Stands(k, a) => Stands(k, a)'
      /\ g_batch_contract_idx' = idx => Stands("pollContract", idx)'
  BY <1>1 DEF Stands
<1>4. MessageInv'
  <2>1. CASE Receive("pollContract", idx, TRUE, 0) /\ g_batch_contract_idx' = idx
    BY <1>2, <1>3, <2>1, ReceiveCallKeeps DEF OutcallsInv
  <2>2. CASE Receive("pollContract", idx, FALSE, 1)
    BY <1>2, <1>3, <2>2, ReceiveRefusedKeeps DEF OutcallsInv
  <2>3. CASE Receive("pollContract", idx, FALSE, 0)
    BY <1>2, <1>3, <2>3, ReceiveRefusedKeeps DEF OutcallsInv
  <2> QED BY <1>1, <2>1, <2>2, <2>3
<1>5. StaticsInv'
  <2>1. Len(g_monitored) \in Nat
    BY DEF OutcallsInv, TableInv
  <2>2. g_batch_contract_idx' \in -1..(Len(g_monitored) - 1)
    <3>1. g_batch_contract_idx' \in {idx, -1, g_batch_contract_idx}
      BY <1>1
    <3>2. idx < Len(g_monitored)
      BY <1>1
    <3>3. g_batch_contract_idx \in -1..(Len(g_monitored) - 1)
      BY DEF OutcallsInv, StaticsInv
    <3> QED BY <1>2, <2>1, <3>1, <3>2, <3>3
  <2> QED BY <1>1, <2>2 DEF OutcallsInv, StaticsInv
<1> QED BY <1>1, <1>4, <1>5, TableUntouched DEF OutcallsInv

LEMMA FetchKeeps ==
  ASSUME OutcallsInv, NEW range \in Ranges, fetchEvmLogs(range)
  PROVE  OutcallsInv'
<1>1. PICK pending \in BOOLEAN :
        /\ Receive("fetchEvmLogs", range, pending, IF pending THEN 0 ELSE 1)
        /\ g_fetch' = range
        /\ UNCHANGED <<g_query, g_monitored, g_batch_contract_idx, events>>
  BY DEF fetchEvmLogs
<1>2. range \in Nat \X Nat /\ range \in Questions /\ "fetchEvmLogs" \in Kinds
  BY OutcallsAssumption DEF Questions, Kinds
<1>3. /\ \A k \in Kinds \ {"fetchEvmLogs"} : \A a : Stands(k, a) => Stands(k, a)'
      /\ pending => Stands("fetchEvmLogs", range)'
  BY <1>1 DEF Stands
<1>4. MessageInv'
  <2> DEFINE replies == IF pending THEN 0 ELSE 1
  <2>1. replies \in Nat /\ replies <= IF pending THEN 0 ELSE 1
    OBVIOUS
  <2>2. Receive("fetchEvmLogs", range, pending, replies)
    BY <1>1
  <2> HIDE DEF replies
  <2> QED BY <1>2, <1>3, <2>1, <2>2, ReceiveKeeps DEF OutcallsInv
<1>5. TableInv' /\ StaticsInv'
  BY <1>1, <1>2, TableUntouched DEF OutcallsInv, StaticsInv
<1> QED BY <1>4, <1>5 DEF OutcallsInv

LEMMA FetchNoToBlockKeeps ==
  ASSUME OutcallsInv, NEW range \in Ranges, fetchNoToBlock(range)
  PROVE  OutcallsInv'
<1>1. /\ Receive("fetchEvmLogs", range, FALSE, 1)
      /\ g_fetch' = [g_fetch EXCEPT ![1] = range[1]]
      /\ UNCHANGED <<g_query, g_monitored, g_batch_contract_idx, events>>
  BY DEF fetchNoToBlock
<1>2. range \in Nat \X Nat /\ range \in Questions /\ "fetchEvmLogs" \in Kinds
  BY OutcallsAssumption DEF Questions, Kinds
<1>3. g_fetch' \in Nat \X Nat
  <2>1. g_fetch \in Nat \X Nat
    BY DEF OutcallsInv, StaticsInv
  <2>2. g_fetch' = <<range[1], g_fetch[2]>>
    BY <1>1, <2>1
  <2> QED BY <1>2, <2>1, <2>2
<1>4. \A k \in Kinds \ {"fetchEvmLogs"} : \A a : Stands(k, a) => Stands(k, a)'
  BY <1>1 DEF Stands
<1>5. MessageInv'
  BY <1>1, <1>2, <1>4, ReceiveRefusedKeeps DEF OutcallsInv
<1>6. TableInv' /\ StaticsInv'
  BY <1>1, <1>3, TableUntouched DEF OutcallsInv, StaticsInv
<1> QED BY <1>5, <1>6 DEF OutcallsInv

\* The methods that write no static.
LEMMA TestKeeps ==
  ASSUME OutcallsInv, testEvmRpc \/ testHttpGet \/ testEthBlockNumber
  PROVE  OutcallsInv'
<1>1. PICK kind \in {"testEvmRpc", "testHttpGet", "testEthBlockNumber"}, pending \in BOOLEAN :
        /\ Receive(kind, << >>, pending, IF pending THEN 0 ELSE 1)
        /\ UNCHANGED <<g_query, g_monitored, g_batch_contract_idx, g_fetch, events>>
  BY DEF testEvmRpc, testHttpGet, testEthBlockNumber, testHttp
<1>2. << >> \in Questions /\ kind \in Kinds
  BY DEF Questions, Kinds, HttpKinds
<1>3. \A k \in Kinds : \A a : /\ Stands(k, a) => Stands(k, a)'
                              /\ Stands(kind, a)'
  BY <1>1 DEF Stands
<1>4. MessageInv'
  <2> DEFINE replies == IF pending THEN 0 ELSE 1
  <2>1. replies \in Nat /\ replies <= IF pending THEN 0 ELSE 1
    OBVIOUS
  <2>2. Receive(kind, << >>, pending, replies)
    BY <1>1
  <2>3. /\ \A k \in Kinds \ {kind} : \A a : Stands(k, a) => Stands(k, a)'
        /\ Stands(kind, << >>)'
    BY <1>2, <1>3
  <2> HIDE DEF replies
  <2> QED BY <1>2, <2>1, <2>2, <2>3, ReceiveKeeps DEF OutcallsInv
<1>5. TableInv' /\ StaticsInv'
  BY <1>1, TableUntouched DEF OutcallsInv, StaticsInv
<1> QED BY <1>4, <1>5 DEF OutcallsInv

---------------------------------------------------------------------------
(* The callbacks.                                                          *)

\* Whatever a message asked, an error says nothing false.
LEMMA ErrorIsTrue ==
  ASSUME messages \in Seq(Message), NEW i \in DOMAIN messages
  PROVE  AnswersItsQuestion([messages[i] EXCEPT !.said = << >>])
<1>1. messages[i] \in Message
  OBVIOUS
<1>2. [messages[i] EXCEPT !.said = << >>].said = << >>
  BY <1>1 DEF Message
<1> QED BY <1>2 DEF AnswersItsQuestion

LEMMA QueryCallbackKeeps ==
  ASSUME OutcallsInv, NEW i,
         dict_query_reply_callback(i) \/ dict_query_reject_callback(i)
  PROVE  OutcallsInv'
<1>1. /\ Waiting(i, "queryDictionary")
      /\ Reply(i, <<g_query>>) \/ Reply(i, << >>)
      /\ UNCHANGED <<g_query, g_monitored, g_batch_contract_idx, g_fetch, events>>
  BY DEF dict_query_reply_callback, dict_query_reject_callback
<1>2. /\ i \in DOMAIN messages /\ messages[i] \in Message
      /\ messages[i].kind = "queryDictionary" /\ "queryDictionary" \in Kinds
  BY <1>1 DEF Waiting, Kinds, OutcallsInv, MessageInv
<1>3. g_query \in Sayings /\ <<g_query>> \in Seq(Sayings) /\ << >> \in Seq(Sayings)
  BY DEF OutcallsInv, StaticsInv, Sayings
<1>4. ASSUME Stands("queryDictionary", messages[i].asked)
      PROVE  AnswersItsQuestion([messages[i] EXCEPT !.said = <<g_query>>])
  <2>1. /\ [messages[i] EXCEPT !.said = <<g_query>>].kind = "queryDictionary"
        /\ [messages[i] EXCEPT !.said = <<g_query>>].asked = messages[i].asked
        /\ [messages[i] EXCEPT !.said = <<g_query>>].said = <<g_query>>
    BY <1>2 DEF Message
  <2> QED BY <1>4, <2>1 DEF AnswersItsQuestion, Stands
<1>5. \A k \in Kinds \ {"queryDictionary"} : \A a : Stands(k, a) => Stands(k, a)'
  BY <1>1 DEF Stands
<1>6. MessageInv'
  <2>1. CASE Reply(i, <<g_query>>)
    BY <1>1, <1>2, <1>3, <1>4, <1>5, <2>1, ReplyKeeps DEF OutcallsInv
  <2>2. CASE Reply(i, << >>)
    <3>1. AnswersItsQuestion([messages[i] EXCEPT !.said = << >>])
      BY <1>2, ErrorIsTrue DEF OutcallsInv, MessageInv
    <3> QED BY <1>1, <1>2, <1>3, <1>5, <2>2, <3>1, ReplyKeeps DEF OutcallsInv
  <2> QED BY <1>1, <2>1, <2>2
<1>7. TableInv' /\ StaticsInv'
  BY <1>1, TableUntouched DEF OutcallsInv, StaticsInv
<1> QED BY <1>6, <1>7 DEF OutcallsInv

LEMMA BatchCallbackKeeps ==
  ASSUME OutcallsInv, NEW i,
         batch_query_reply_callback(i) \/ batch_query_reject_callback(i)
  PROVE  OutcallsInv'
<1> DEFINE named == g_batch_contract_idx
<1>1. /\ Waiting(i, "pollContract")
      /\ Reply(i, <<named>>) \/ Reply(i, << >>)
      /\ g_batch_contract_idx' = -1
      /\ UNCHANGED <<g_query, g_monitored, g_fetch, events>>
  BY DEF batch_query_reply_callback, batch_query_reject_callback
<1>2. /\ i \in DOMAIN messages /\ messages[i] \in Message
      /\ messages[i].kind = "pollContract" /\ "pollContract" \in Kinds
  BY <1>1 DEF Waiting, Kinds, OutcallsInv, MessageInv
<1>3. named \in Sayings /\ <<named>> \in Seq(Sayings) /\ << >> \in Seq(Sayings)
  <2>1. Len(g_monitored) \in Nat
    BY DEF OutcallsInv, TableInv
  <2>2. named \in Int
    BY <2>1 DEF OutcallsInv, StaticsInv
  <2> QED BY <2>2 DEF Sayings
<1>4. ASSUME Stands("pollContract", messages[i].asked)
      PROVE  AnswersItsQuestion([messages[i] EXCEPT !.said = <<named>>])
  <2>1. /\ [messages[i] EXCEPT !.said = <<named>>].kind = "pollContract"
        /\ [messages[i] EXCEPT !.said = <<named>>].asked = messages[i].asked
        /\ [messages[i] EXCEPT !.said = <<named>>].said = <<named>>
    BY <1>2 DEF Message
  <2> QED BY <1>4, <2>1 DEF AnswersItsQuestion, Stands
<1>5. \A k \in Kinds \ {"pollContract"} : \A a : Stands(k, a) => Stands(k, a)'
  BY <1>1 DEF Stands
<1>6. MessageInv'
  <2>1. CASE Reply(i, <<named>>)
    BY <1>1, <1>2, <1>3, <1>4, <1>5, <2>1, ReplyKeeps DEF OutcallsInv
  <2>2. CASE Reply(i, << >>)
    <3>1. AnswersItsQuestion([messages[i] EXCEPT !.said = << >>])
      BY <1>2, ErrorIsTrue DEF OutcallsInv, MessageInv
    <3> QED BY <1>1, <1>2, <1>3, <1>5, <2>2, <3>1, ReplyKeeps DEF OutcallsInv
  <2> QED BY <1>1, <2>1, <2>2
<1>7. StaticsInv'
  <2>1. Len(g_monitored) \in Nat
    BY DEF OutcallsInv, TableInv
  <2> QED BY <1>1, <2>1 DEF OutcallsInv, StaticsInv
<1> QED BY <1>1, <1>6, <1>7, TableUntouched DEF OutcallsInv

\* Without its last element the answer of a fetch is the range.
LEMMA FrontOfFetched ==
  ASSUME NEW range \in Nat \X Nat, NEW parsed \in Nat
  PROVE  /\ Append(range, parsed) \in Seq(Nat)
         /\ Front(Append(range, parsed)) = range
<1> DEFINE t == Append(range, parsed)
<1>1. range \in Seq(Nat) /\ Len(range) = 2
  <2>1. PICK a \in Nat, b \in Nat : range = <<a, b>>
    OBVIOUS
  <2>2. <<a, b>> \in Seq(Nat) /\ Len(<<a, b>>) = 2
    OBVIOUS
  <2> QED BY <2>1, <2>2
<1>2. t \in Seq(Nat) /\ Len(t) = 3 /\ \A i \in 1..2 : t[i] = range[i]
  <2>1. /\ t \in Seq(Nat) /\ Len(t) = Len(range) + 1
        /\ \A i \in 1..Len(range) : t[i] = range[i]
    <3> HIDE DEF t
    <3>1. range \in Seq(Nat) /\ parsed \in Nat /\ t = Append(range, parsed)
      BY <1>1 DEF t
    <3> QED BY <3>1, AppendProperties
  <2> HIDE DEF t
  <2> QED BY <1>1, <2>1
<1> HIDE DEF t
<1>3. /\ SubSeq(t, 1, 2) \in Seq(Nat) /\ Len(SubSeq(t, 1, 2)) = 2
      /\ \A i \in 1..2 : SubSeq(t, 1, 2)[i] = t[i]
  BY <1>2
<1>4. SubSeq(t, 1, 2) = range
  BY <1>1, <1>2, <1>3, SeqEqual
<1> QED BY <1>2, <1>4 DEF Front, t

LEMMA FetchCallbackKeeps ==
  ASSUME OutcallsInv, NEW i,
         fetch_logs_reply_callback(i) \/ fetch_logs_reject_callback(i)
  PROVE  OutcallsInv'
<1>1. /\ Waiting(i, "fetchEvmLogs")
      /\ \/ \E parsed \in 0..MaxLogs : /\ parse_and_store_logs(parsed)
                                       /\ Reply(i, <<Append(g_fetch, parsed)>>)
         \/ Reply(i, << >>) /\ events' = events
      /\ UNCHANGED <<g_query, g_monitored, g_batch_contract_idx, g_fetch>>
  BY DEF fetch_logs_reply_callback, fetch_logs_reject_callback
<1>2. /\ i \in DOMAIN messages /\ messages[i] \in Message
      /\ messages[i].kind = "fetchEvmLogs" /\ "fetchEvmLogs" \in Kinds
      /\ << >> \in Seq(Sayings) /\ g_fetch \in Nat \X Nat /\ events \in Nat
  BY <1>1 DEF Waiting, Kinds, OutcallsInv, MessageInv, StaticsInv
<1>3. \A k \in Kinds \ {"fetchEvmLogs"} : \A a : Stands(k, a) => Stands(k, a)'
  BY <1>1 DEF Stands
<1>4. ASSUME NEW parsed \in 0..MaxLogs, parse_and_store_logs(parsed),
             Reply(i, <<Append(g_fetch, parsed)>>)
      PROVE  MessageInv' /\ events' \in Nat
  <2> DEFINE told == Append(g_fetch, parsed)
  <2>1. parsed \in Nat
    BY OutcallsAssumption
  <2>2. told \in Seq(Nat) /\ Front(told) = g_fetch
    BY <1>2, <2>1, FrontOfFetched
  <2>3. Reply(i, <<told>>)
    BY <1>4
  <2> HIDE DEF told
  <2>4. <<told>> \in Seq(Sayings)
    <3>1. told \in Sayings
      BY <2>2 DEF Sayings
    <3> QED BY <3>1
  <2>5. ASSUME Stands("fetchEvmLogs", messages[i].asked)
        PROVE  AnswersItsQuestion([messages[i] EXCEPT !.said = <<told>>])
    <3>1. /\ [messages[i] EXCEPT !.said = <<told>>].kind = "fetchEvmLogs"
          /\ [messages[i] EXCEPT !.said = <<told>>].asked = messages[i].asked
          /\ [messages[i] EXCEPT !.said = <<told>>].said = <<told>>
      BY <1>2 DEF Message
    <3>2. messages[i].asked = g_fetch
      BY <2>5 DEF Stands
    <3>3. <<told>>[1] = told
      OBVIOUS
    <3> QED BY <2>2, <3>1, <3>2, <3>3 DEF AnswersItsQuestion
  <2>6. MessageInv'
    BY <1>1, <1>2, <1>3, <2>3, <2>4, <2>5, ReplyKeeps DEF OutcallsInv
  <2>7. events' \in Nat
    <3>1. PICK failed \in 0..parsed : events' = events + (parsed - failed)
      BY <1>4 DEF parse_and_store_logs
    <3>2. parsed - failed \in Nat
      BY <2>1
    <3> QED BY <1>2, <3>1, <3>2
  <2> QED BY <2>6, <2>7
<1>5. ASSUME Reply(i, << >>), events' = events
      PROVE  MessageInv' /\ events' \in Nat
  <2>1. AnswersItsQuestion([messages[i] EXCEPT !.said = << >>])
    BY <1>2, ErrorIsTrue DEF OutcallsInv, MessageInv
  <2> QED BY <1>1, <1>2, <1>3, <1>5, <2>1, ReplyKeeps DEF OutcallsInv
<1>6. MessageInv' /\ events' \in Nat
  BY <1>1, <1>4, <1>5
<1>7. TableInv' /\ StaticsInv'
  BY <1>1, <1>6, TableUntouched DEF OutcallsInv, StaticsInv
<1> QED BY <1>6, <1>7 DEF OutcallsInv

\* The callbacks that read no static.
LEMMA TestCallbackKeeps ==
  ASSUME OutcallsInv, NEW i,
         \/ evm_rpc_reply_callback(i) \/ evm_rpc_reject_callback(i)
         \/ http_reply_callback(i) \/ http_reject_callback(i)
  PROVE  OutcallsInv'
<1> DEFINE Said == {<< >>, <<"rpcResponse">>, <<"permanent">>, <<"retryable">>}
<1>1. PICK kind \in {"testEvmRpc", "testHttpGet", "testEthBlockNumber"}, said \in Said :
        /\ Waiting(i, kind) /\ Reply(i, said)
        /\ UNCHANGED <<g_query, g_monitored, g_batch_contract_idx, g_fetch, events>>
  <2>1. CASE evm_rpc_reply_callback(i)
    BY <2>1 DEF evm_rpc_reply_callback, check_rpc_error
  <2>2. CASE evm_rpc_reject_callback(i)
    BY <2>2 DEF evm_rpc_reject_callback
  <2>3. CASE http_reply_callback(i)
    BY <2>3 DEF http_reply_callback, extract_jsonrpc_result, HttpKinds
  <2>4. CASE http_reject_callback(i)
    BY <2>4 DEF http_reject_callback, HttpKinds
  <2> QED BY <2>1, <2>2, <2>3, <2>4
<1>2. /\ i \in DOMAIN messages /\ messages[i] \in Message
      /\ messages[i].kind = kind /\ kind \in Kinds /\ said \in Seq(Sayings)
  <2>1. i \in DOMAIN messages /\ messages[i].kind = kind /\ kind \in Kinds
    BY <1>1 DEF Waiting, Kinds, HttpKinds
  <2>2. messages[i] \in Message
    BY <2>1 DEF OutcallsInv, MessageInv
  <2>3. {"rpcResponse", "permanent", "retryable"} \subseteq Sayings
    BY DEF Sayings
  <2> HIDE DEF Said
  <2>4. Said \subseteq Seq(Sayings)
    BY <2>3 DEF Said
  <2> QED BY <2>1, <2>2, <2>4
<1>3. AnswersItsQuestion([messages[i] EXCEPT !.said = said])
  <2>1. [messages[i] EXCEPT !.said = said].kind = kind
    BY <1>2 DEF Message
  <2> QED BY <1>1, <2>1 DEF AnswersItsQuestion
<1>4. \A k \in Kinds \ {kind} : \A a : Stands(k, a) => Stands(k, a)'
  BY <1>1 DEF Stands
<1>5. MessageInv'
  BY <1>1, <1>2, <1>3, <1>4, ReplyKeeps DEF OutcallsInv
<1>6. TableInv' /\ StaticsInv'
  BY <1>1, TableUntouched DEF OutcallsInv, StaticsInv
<1> QED BY <1>5, <1>6 DEF OutcallsInv

---------------------------------------------------------------------------
(* The theorems.                                                           *)

LEMMA OutcallsInitEstablishes == Init => OutcallsInv
<1> SUFFICES ASSUME Init PROVE OutcallsInv
  OBVIOUS
<1>1. MessageInv
  BY DEF Init, MessageInv, OneReplyEach, AnswersTrueWhenAlone, Undisturbed
<1>2. TableInv
  BY OutcallsAssumption DEF Init, TableInv, TableUnambiguous
<1>3. StaticsInv
  BY DEF Init, StaticsInv, Query
<1> QED BY <1>1, <1>2, <1>3 DEF OutcallsInv

LEMMA OutcallsNextKeeps == OutcallsInv /\ [Next]_vars => OutcallsInv'
<1> SUFFICES ASSUME OutcallsInv, [Next]_vars PROVE OutcallsInv'
  OBVIOUS
<1>1. CASE \E d \in Addresses, s \in Selectors : queryDictionary(d, s)
  BY <1>1, QueryKeeps
<1>2. CASE \E d \in Addresses : querySelectorTooLong(d)
  BY <1>2, QueryTooLongKeeps
<1>3. CASE \E d \in Addresses, s \in Selectors, c \in Chains : registerMonitor(d, s, c)
  <2>1. PICK d \in Addresses, s \in Selectors, c \in Chains : registerMonitor(d, s, c)
    BY <1>3
  <2>2. TableInv' /\ Len(g_monitored') >= Len(g_monitored)
    BY <2>1, RegisterKeeps DEF OutcallsInv
  <2>3. UNCHANGED <<g_query, g_batch_contract_idx, g_fetch, events, messages>>
    BY <2>1 DEF registerMonitor
  <2>4. MessageInv'
    BY <2>3 DEF OutcallsInv, MessageInv, OneReplyEach, AnswersTrueWhenAlone,
                AnswersItsQuestion, Undisturbed, Stands
  <2>5. StaticsInv'
    <3>1. Len(g_monitored) \in Nat /\ Len(g_monitored') \in Nat
      BY <2>2 DEF OutcallsInv, TableInv
    <3> QED BY <2>2, <2>3, <3>1 DEF OutcallsInv, StaticsInv
  <2> QED BY <2>2, <2>4, <2>5 DEF OutcallsInv
<1>4. CASE \E idx \in 0..(MaxContracts - 1) : pollContract(idx)
  BY <1>4, PollKeeps
<1>5. CASE \E r \in Ranges : fetchEvmLogs(r) \/ fetchNoToBlock(r)
  BY <1>5, FetchKeeps, FetchNoToBlockKeeps
<1>6. CASE testEvmRpc \/ testHttpGet \/ testEthBlockNumber
  BY <1>6, TestKeeps
<1>7. CASE \E i \in 1..MaxMessages : Return(i)
  <2>1. PICK i \in 1..MaxMessages : Return(i)
    BY <1>7
  <2> QED BY <2>1, QueryCallbackKeeps, BatchCallbackKeeps, FetchCallbackKeeps,
             TestCallbackKeeps DEF Return
<1>8. CASE UNCHANGED vars
  BY <1>8 DEF vars, OutcallsInv, MessageInv, OneReplyEach, AnswersTrueWhenAlone,
              AnswersItsQuestion, Undisturbed, Stands, TableInv, TableUnambiguous, StaticsInv
<1> QED BY <1>1, <1>2, <1>3, <1>4, <1>5, <1>6, <1>7, <1>8 DEF Next

\* The invariant of messages, statics and table holds in every reachable state
\* of the update methods and their callbacks in canister_entry.c.
THEOREM OutcallsInvariance == Spec => []OutcallsInv
<1>1. OutcallsInv /\ [Next]_vars => OutcallsInv'
  BY OutcallsNextKeeps
<1> QED BY OutcallsInitEstablishes, <1>1, PTL DEF Spec

\* The statics keep their types, the table its two capacities, and the index
\* of the polled contract is -1 or a position of the table.
THEOREM OutcallsTypeCorrect == Spec => []OutcallsTypeOK
<1>1. OutcallsInv => OutcallsTypeOK
  <2> SUFFICES ASSUME OutcallsInv PROVE OutcallsTypeOK
    OBVIOUS
  <2>1. \A i \in DOMAIN messages : messages[i].kind \in Kinds /\ messages[i].replies \in Nat
    <3>1. \A i \in DOMAIN messages : messages[i] \in Message
      BY DEF OutcallsInv, MessageInv
    <3> QED BY <3>1 DEF Message
  <2>2. \A i \in DOMAIN g_monitored : /\ g_monitored[i].dictionary \in Addresses
                                      /\ g_monitored[i].chain_id \in Chains
                                      /\ g_monitored[i].selectors \in Seq(Selectors)
    <3>1. \A i \in DOMAIN g_monitored : g_monitored[i] \in MonitorEntry
      BY DEF OutcallsInv, TableInv
    <3> QED BY <3>1 DEF MonitorEntry
  <2> QED BY <2>1, <2>2 DEF OutcallsInv, TableInv, StaticsInv, OutcallsTypeOK, Query
<1> QED BY OutcallsInvariance, <1>1, PTL

\* No message is answered twice, nor before the callback it waits for.
THEOREM AnsweredOnce == Spec => []OneReplyEach
<1>1. OutcallsInv => OneReplyEach
  BY DEF OutcallsInv, MessageInv
<1> QED BY OutcallsInvariance, <1>1, PTL

\* A message that no other of its method ran beside is answered about what it
\* asked, although its callback reads only the statics.
THEOREM AloneAnswersTrue == Spec => []AnswersTrueWhenAlone
<1>1. OutcallsInv => AnswersTrueWhenAlone
  BY DEF OutcallsInv, MessageInv
<1> QED BY OutcallsInvariance, <1>1, PTL

\* No entry of the table of monitored contracts is hidden by an earlier one.
THEOREM TableNeverAmbiguous == Spec => []TableUnambiguous
<1>1. OutcallsInv => TableUnambiguous
  BY DEF OutcallsInv, TableInv
<1> QED BY OutcallsInvariance, <1>1, PTL

\* No step of any method moves or changes an entry that callers hold the
\* index of, and none takes a selector away from it.
THEOREM EntriesNeverMove == Spec => EntriesStable
<1> DEFINE Stable ==
      \A i \in DOMAIN g_monitored :
        /\ i \in DOMAIN g_monitored'
        /\ g_monitored'[i].dictionary = g_monitored[i].dictionary
        /\ g_monitored'[i].chain_id = g_monitored[i].chain_id
        /\ IsPrefix(g_monitored[i].selectors, g_monitored'[i].selectors)
<1>1. ASSUME OutcallsInv, UNCHANGED g_monitored
      PROVE  Stable
  BY <1>1, SubSeqFull DEF IsPrefix, OutcallsInv, TableInv, MonitorEntry
<1>2. ASSUME OutcallsInv, Next
      PROVE  Stable
  <2>1. CASE \E d \in Addresses, s \in Selectors, c \in Chains : registerMonitor(d, s, c)
    BY <1>2, <2>1, RegisterKeeps DEF OutcallsInv
  <2>2. CASE UNCHANGED g_monitored
    BY <1>1, <1>2, <2>2
  <2>3. UNCHANGED g_monitored
        \/ \E d \in Addresses, s \in Selectors, c \in Chains : registerMonitor(d, s, c)
    <3>1. ASSUME NEW d \in Addresses, NEW s \in Selectors,
                 queryDictionary(d, s) \/ querySelectorTooLong(d)
          PROVE  UNCHANGED g_monitored
      BY <3>1 DEF queryDictionary, querySelectorTooLong
    <3>2. ASSUME NEW d \in Addresses, querySelectorTooLong(d)
          PROVE  UNCHANGED g_monitored
      BY <3>2 DEF querySelectorTooLong
    <3>3. ASSUME NEW idx, pollContract(idx)
          PROVE  UNCHANGED g_monitored
      BY <3>3 DEF pollContract
    <3>4. ASSUME NEW r \in Ranges, fetchEvmLogs(r) \/ fetchNoToBlock(r)
          PROVE  UNCHANGED g_monitored
      BY <3>4 DEF fetchEvmLogs, fetchNoToBlock
    <3>5. ASSUME testEvmRpc \/ testHttpGet \/ testEthBlockNumber
          PROVE  UNCHANGED g_monitored
      BY <3>5 DEF testEvmRpc, testHttpGet, testEthBlockNumber, testHttp
    <3>6. ASSUME NEW i, Return(i)
          PROVE  UNCHANGED g_monitored
      BY <3>6 DEF Return, dict_query_reply_callback, dict_query_reject_callback,
           batch_query_reply_callback, batch_query_reject_callback,
           fetch_logs_reply_callback, fetch_logs_reject_callback,
           evm_rpc_reply_callback, evm_rpc_reject_callback,
           http_reply_callback, http_reject_callback
    <3> QED BY <1>2, <3>1, <3>2, <3>3, <3>4, <3>5, <3>6 DEF Next
  <2> QED BY <2>1, <2>2, <2>3
<1>3. OutcallsInv /\ [Next]_vars => [Stable]_vars
  BY <1>2
<1> QED BY OutcallsInvariance, <1>3, PTL DEF Spec, EntriesStable
=============================================================================
