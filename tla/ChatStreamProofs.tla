-------------------------- MODULE ChatStreamProofs --------------------------
(***************************************************************************)
(* A stream closes once, whole, and an abort is reported as one: for any   *)
(* number of chats, any channel, any reply, half-open clients and aborts   *)
(* at every point of a turn.                                               *)
(***************************************************************************)
EXTENDS ChatStream, TLAPS

Event == {"delta", "recall", "kairos"} \cup Terminal

\* Where a turn has not decoded yet, and where it has closed its stream.
Early == {"new", "wait", "declined"} \cup Before
Closing == {"end", "done", "cancelled"}
Over == {"post", "gone"}

Silent(c) == \A i \in 1..Len(sent[c]) : sent[c][i] \notin Terminal
ClosesLast(c) == \A i \in 1..Len(sent[c]) : sent[c][i] \in Terminal => i = Len(sent[c])
Ends(c, how) == sent[c] # << >> /\ sent[c][Len(sent[c])] \in how

\* The text of a reply: nothing before the decode, and for a client that is still
\* there all of it when the turn comes to its end.
Text(c) ==
    /\ out[c] <= gen[c]
    /\ stage[c] \in Early => gen[c] = 0 /\ out[c] = 0
    /\ stage[c] \in Closing \cup {"post"} /\ peer[c] = "live" => out[c] = gen[c]

\* The closing event of a stream.
Closes(c) ==
    /\ stage[c] \notin Over => Silent(c)
    /\ ClosesLast(c)
    /\ stage[c] = "post" /\ peer[c] = "live" => Ends(c, {"done", "cancelled"})
    /\ stage[c] = "gone" /\ peer[c] = "live" =>
          Ends(c, Terminal) /\ (sent[c][Len(sent[c])] # "error" => out[c] = gen[c])

\* The cancel flag: it can be set in a registered chat only, and a turn that is to
\* be reported as done had it down, or up since before the reply.
Flag(c) ==
    /\ c \in sessions => stage[c] \notin {"new", "gone"}
    /\ stage[c] \in Early \cup {"done"} => cut[c] \notin Replying
    /\ stage[c] = "cancelled" => Cancelled(c)
    /\ \A i \in 1..Len(sent[c]) :
          /\ sent[c][i] = "done" => cut[c] \notin Replying
          /\ sent[c][i] = "cancelled" => Cancelled(c)

StreamInv == TypeOK /\ \A c \in Chat : Text(c) /\ Closes(c) /\ Flag(c)

-----------------------------------------------------------------------------
\* What no step of another chat's changes.
LEMMA Untouched ==
    ASSUME NEW d \in Chat, Text(d) /\ Closes(d) /\ Flag(d),
           stage'[d] = stage[d], sent'[d] = sent[d], peer'[d] = peer[d], gen'[d] = gen[d],
           out'[d] = out[d], cut'[d] = cut[d], d \in sessions' => d \in sessions
    PROVE  (Text(d) /\ Closes(d) /\ Flag(d))'
BY DEF Text, Closes, Flag, Silent, ClosesLast, Ends, Cancelled

\* A send appends its event, or leaves the channel as it is; a client that is there
\* gets it.
LEMMA SendEffect ==
    ASSUME TypeOK, NEW c \in Chat, NEW ev \in Event,
           BlockingSend(c, ev) \/ Delivered(c, ev) \/ UNCHANGED sent, read' = read
    PROVE  /\ sent' \in [Chat -> Seq(Event)]
           /\ \A d \in Chat : Len(sent'[d]) - read'[d] \in 0..ChanCap
           /\ \A d \in Chat \ {c} : sent'[d] = sent[d]
           /\ \/ sent'[c] = sent[c]
              \/ /\ Len(sent'[c]) = Len(sent[c]) + 1
                 /\ sent'[c][Len(sent'[c])] = ev
                 /\ \A i \in 1..Len(sent[c]) : sent'[c][i] = sent[c][i]
           /\ BlockingSend(c, ev) /\ peer[c] = "live" =>
                 Len(sent'[c]) = Len(sent[c]) + 1
<1>1. /\ sent \in [Chat -> Seq(Event)] /\ read \in [Chat -> Nat]
      /\ \A d \in Chat : Len(sent[d]) - read[d] \in 0..ChanCap
  BY DEF TypeOK, Event
<1>2. CASE UNCHANGED sent
  <2>1. ~(BlockingSend(c, ev) /\ peer[c] = "live")
    <3> SUFFICES ASSUME BlockingSend(c, ev), peer[c] = "live"
                 PROVE  FALSE
      OBVIOUS
    <3>1. sent' = [sent EXCEPT ![c] = Append(sent[c], ev)]
      BY DEF BlockingSend, Closed, Push
    <3>2. sent'[c] = Append(sent[c], ev) /\ sent[c] \in Seq(Event)
      BY <1>1, <3>1
    <3>3. Len(Append(sent[c], ev)) # Len(sent[c])
      BY <3>2
    <3> QED BY <1>2, <3>2, <3>3
  <2> QED BY <1>1, <1>2, <2>1
<1>3. CASE Room(c) /\ Push(c, ev)
  <2>1. sent' = [sent EXCEPT ![c] = Append(sent[c], ev)] /\ Len(sent[c]) - read[c] < ChanCap
    BY <1>3 DEF Push, Room
  <2>2. /\ sent'[c] = Append(sent[c], ev) /\ sent[c] \in Seq(Event)
        /\ \A d \in Chat \ {c} : sent'[d] = sent[d]
    BY <1>1, <2>1
  <2>3. /\ Append(sent[c], ev) \in Seq(Event)
        /\ Len(Append(sent[c], ev)) = Len(sent[c]) + 1
        /\ Append(sent[c], ev)[Len(sent[c]) + 1] = ev
        /\ \A i \in 1..Len(sent[c]) : Append(sent[c], ev)[i] = sent[c][i]
    BY <2>2
  <2>4. sent' \in [Chat -> Seq(Event)]
    BY <1>1, <2>1, <2>3
  <2>5. \A d \in Chat : Len(sent'[d]) - read'[d] \in 0..ChanCap
    <3> SUFFICES ASSUME NEW d \in Chat
                 PROVE  Len(sent'[d]) - read[d] \in 0..ChanCap
      OBVIOUS
    <3>1. CASE d # c
      BY <1>1, <2>2, <3>1
    <3>2. CASE d = c
      <4>1. Len(sent[c]) \in Nat /\ read[c] \in Nat /\ ChanCap \in Nat
        BY <1>1, <2>2, StreamShape
      <4> QED BY <1>1, <2>1, <2>2, <2>3, <3>2, <4>1
    <3> QED BY <3>1, <3>2
  <2> QED BY <2>2, <2>3, <2>4, <2>5
<1> QED BY <1>2, <1>3 DEF BlockingSend, Delivered
-----------------------------------------------------------------------------
\* A step of chat c leaves the others alone.
Same(d) ==
    /\ stage'[d] = stage[d] /\ sent'[d] = sent[d] /\ peer'[d] = peer[d] /\ gen'[d] = gen[d]
    /\ out'[d] = out[d] /\ cut'[d] = cut[d] /\ (d \in sessions' => d \in sessions)

LEMMA OneChat ==
    ASSUME StreamInv, NEW c \in Chat, TypeOK', \A d \in Chat \ {c} : Same(d),
           Text(c)', Closes(c)', Flag(c)'
    PROVE  StreamInv'
BY Untouched DEF StreamInv, Same

\* The channel of c after one of its turn's sends, in the terms of the invariant.
LEMMA SentBy ==
    ASSUME StreamInv, NEW c \in Chat, NEW ev \in Event,
           BlockingSend(c, ev) \/ Delivered(c, ev) \/ UNCHANGED sent, read' = read,
           stage[c] \notin Over
    PROVE  /\ ClosesLast(c)'
           /\ ev \notin Terminal => Silent(c)'
           /\ BlockingSend(c, ev) /\ peer[c] = "live" => Ends(c, {ev})'
           /\ \A i \in 1..Len(sent'[c]) : sent'[c][i] \in Terminal => sent'[c][i] = ev
<1>1. sent[c] \in Seq(Event) /\ Silent(c) /\ Len(sent[c]) \in Nat
  BY DEF StreamInv, TypeOK, Event, Closes
<1>2. /\ sent'[c] \in Seq(Event)
      /\ \/ sent'[c] = sent[c]
         \/ /\ Len(sent'[c]) = Len(sent[c]) + 1
            /\ sent'[c][Len(sent'[c])] = ev
            /\ \A i \in 1..Len(sent[c]) : sent'[c][i] = sent[c][i]
      /\ BlockingSend(c, ev) /\ peer[c] = "live" => Len(sent'[c]) = Len(sent[c]) + 1
  BY SendEffect DEF StreamInv
<1>3. \A i \in 1..Len(sent'[c]) : i < Len(sent'[c]) => sent'[c][i] \notin Terminal
  BY <1>1, <1>2 DEF Silent
<1>4. \A i \in 1..Len(sent'[c]) : sent'[c][i] \in Terminal => i = Len(sent'[c]) /\ sent'[c][i] = ev
  BY <1>1, <1>2 DEF Silent
<1>5. ClosesLast(c)'
  BY <1>4 DEF ClosesLast
<1>6. ev \notin Terminal => Silent(c)'
  BY <1>4 DEF Silent
<1>7. BlockingSend(c, ev) /\ peer[c] = "live" => Ends(c, {ev})'
  BY <1>1, <1>2 DEF Ends
<1> QED BY <1>4, <1>5, <1>6, <1>7

LEMMA RequestKeeps ==
    ASSUME StreamInv, NEW c \in Chat, Request(c)
    PROVE  StreamInv'
<1>1. TypeOK'
  BY DEF StreamInv, TypeOK, Request, Go, Stages, Inside, Replying, Looping, Before
<1>2. \A d \in Chat \ {c} : Same(d)
  BY DEF StreamInv, TypeOK, Same, Request, Go
<1>3. Text(c)'
  BY DEF StreamInv, TypeOK, Text, Request, Go, Early, Closing, Before, Looping
<1>4. Closes(c)'
  BY DEF StreamInv, TypeOK, Text, Closes, Silent, ClosesLast, Ends, Request, Go, Over,
         Terminal, Early, Closing, Before, Looping
<1>5. Flag(c)'
  BY DEF StreamInv, TypeOK, Flag, Closes, Silent, Cancelled, Request, Go, Early, Replying,
         Before, Looping, Over, Terminal
<1> QED BY <1>1, <1>2, <1>3, <1>4, <1>5, OneChat

LEMMA AcquireKeeps ==
    ASSUME StreamInv, NEW c \in Chat, Acquire(c)
    PROVE  StreamInv'
<1>1. TypeOK'
  BY DEF StreamInv, TypeOK, Acquire, Go, Stages, Inside, Replying, Looping, Before
<1>2. \A d \in Chat \ {c} : Same(d)
  BY DEF StreamInv, TypeOK, Same, Acquire, Go
<1>3. Text(c)'
  BY DEF StreamInv, TypeOK, Text, Acquire, Go, Early, Closing, Before, Looping
<1>4. Closes(c)'
  <2>1. stage[c] = "wait" /\ stage'[c] = "prompt" /\ sent' = sent
    BY DEF StreamInv, TypeOK, Acquire, Go
  <2>2. Silent(c) /\ ClosesLast(c)
    BY <2>1 DEF StreamInv, Closes, Over
  <2> QED BY <2>1, <2>2 DEF Closes, Silent, ClosesLast, Ends
<1>5. Flag(c)'
  BY DEF StreamInv, TypeOK, Flag, Closes, Silent, Cancelled, Acquire, Go, Early, Replying,
         Before, Looping, Over, Terminal
<1> QED BY <1>1, <1>2, <1>3, <1>4, <1>5, OneChat

LEMMA RecallKeeps ==
    ASSUME StreamInv, NEW c \in Chat, NEW held \in BOOLEAN, Recall(c, held)
    PROVE  StreamInv'
<1>1. "recall" \in Event /\ stage[c] \notin Over /\ read' = read
  BY DEF Recall, Event, Terminal, Before, Over, Looping
<1>2. BlockingSend(c, "recall") \/ Delivered(c, "recall") \/ UNCHANGED sent
  BY DEF Recall
<1>3. /\ sent' \in [Chat -> Seq(Event)]
      /\ \A d \in Chat : Len(sent'[d]) - read'[d] \in 0..ChanCap
      /\ \A d \in Chat \ {c} : sent'[d] = sent[d]
  BY <1>1, <1>2, SendEffect DEF StreamInv
<1>4. /\ ClosesLast(c)'
      /\ "recall" \notin Terminal => Silent(c)'
      /\ BlockingSend(c, "recall") /\ peer[c] = "live" => Ends(c, {"recall"})'
      /\ \A i \in 1..Len(sent'[c]) : sent'[c][i] \in Terminal => sent'[c][i] = "recall"
  BY <1>1, <1>2, SentBy
<1>5. TypeOK'
  BY <1>1, <1>3
     DEF StreamInv, TypeOK, Event, Recall, Go, Stages, Inside, Replying, Looping, Before
<1>6. \A d \in Chat \ {c} : Same(d)
  BY <1>3 DEF StreamInv, TypeOK, Same, Recall, Go
<1>7. Text(c)'
  BY DEF StreamInv, TypeOK, Text, Recall, Go, Early, Closing, Before, Looping
<1>8. Closes(c)'
  BY <1>4, <1>7
     DEF StreamInv, TypeOK, Text, Closes, Ends, Recall, Go, Over, Terminal, Early,
         Closing, Before, Looping
<1>9. Flag(c)'
  BY <1>4
     DEF StreamInv, TypeOK, Flag, Cancelled, Recall, Go, Early, Replying, Before,
         Looping, Over, Terminal
<1> QED BY <1>5, <1>6, <1>7, <1>8, <1>9, OneChat

LEMMA PromptFailsKeeps ==
    ASSUME StreamInv, NEW c \in Chat, PromptFails(c)
    PROVE  StreamInv'
<1>1. "error" \in Event /\ stage[c] \notin Over /\ read' = read
  BY DEF PromptFails, Event, Terminal, Before, Over, Looping
<1>2. BlockingSend(c, "error") \/ Delivered(c, "error") \/ UNCHANGED sent
  BY DEF PromptFails
<1>3. /\ sent' \in [Chat -> Seq(Event)]
      /\ \A d \in Chat : Len(sent'[d]) - read'[d] \in 0..ChanCap
      /\ \A d \in Chat \ {c} : sent'[d] = sent[d]
  BY <1>1, <1>2, SendEffect DEF StreamInv
<1>4. /\ ClosesLast(c)'
      /\ "error" \notin Terminal => Silent(c)'
      /\ BlockingSend(c, "error") /\ peer[c] = "live" => Ends(c, {"error"})'
      /\ \A i \in 1..Len(sent'[c]) : sent'[c][i] \in Terminal => sent'[c][i] = "error"
  BY <1>1, <1>2, SentBy
<1>5. TypeOK'
  BY <1>1, <1>3
     DEF StreamInv, TypeOK, Event, PromptFails, Go, Leave, Stages, Inside, Replying,
         Looping, Before
<1>6. \A d \in Chat \ {c} : Same(d)
  BY <1>3 DEF StreamInv, TypeOK, Same, PromptFails, Go, Leave
<1>7. Text(c)'
  BY DEF StreamInv, TypeOK, Text, PromptFails, Go, Leave, Early, Closing, Before, Looping
<1>8. Closes(c)'
  BY <1>4, <1>7
     DEF StreamInv, TypeOK, Text, Closes, Ends, PromptFails, Go, Leave, Over, Terminal,
         Early, Closing, Before, Looping
<1>9. Flag(c)'
  BY <1>4
     DEF StreamInv, TypeOK, Flag, Cancelled, PromptFails, Go, Leave, Early, Replying,
         Before, Looping, Over, Terminal
<1> QED BY <1>5, <1>6, <1>7, <1>8, <1>9, OneChat

LEMMA SynthesizeKeeps ==
    ASSUME StreamInv, NEW c \in Chat, Synthesize(c)
    PROVE  StreamInv'
<1>1. TypeOK'
  BY DEF StreamInv, TypeOK, Synthesize, Go, Stages, Inside, Replying, Looping, Before
<1>2. \A d \in Chat \ {c} : Same(d)
  BY DEF StreamInv, TypeOK, Same, Synthesize, Go
<1>3. Text(c)'
  BY DEF StreamInv, TypeOK, Text, Synthesize, Go, Early, Closing, Before, Looping
<1>4. Closes(c)'
  BY DEF StreamInv, TypeOK, Text, Closes, Silent, ClosesLast, Ends, Synthesize, Go, Over,
         Terminal, Early, Closing, Before, Looping
<1>5. Flag(c)'
  BY DEF StreamInv, TypeOK, Flag, Closes, Silent, Cancelled, Synthesize, Go, Early,
         Replying, Before, Looping, Over, Terminal
<1> QED BY <1>1, <1>2, <1>3, <1>4, <1>5, OneChat

LEMMA DeclineKeeps ==
    ASSUME StreamInv, NEW c \in Chat, Decline(c)
    PROVE  StreamInv'
<1>1. "delta" \in Event /\ stage[c] \notin Over /\ read' = read
  BY DEF Decline, Event, Terminal, Before, Over, Looping
<1>2. BlockingSend(c, "delta") \/ Delivered(c, "delta") \/ UNCHANGED sent
  BY DEF Decline
<1>3. /\ sent' \in [Chat -> Seq(Event)]
      /\ \A d \in Chat : Len(sent'[d]) - read'[d] \in 0..ChanCap
      /\ \A d \in Chat \ {c} : sent'[d] = sent[d]
  BY <1>1, <1>2, SendEffect DEF StreamInv
<1>4. /\ ClosesLast(c)'
      /\ "delta" \notin Terminal => Silent(c)'
      /\ BlockingSend(c, "delta") /\ peer[c] = "live" => Ends(c, {"delta"})'
      /\ \A i \in 1..Len(sent'[c]) : sent'[c][i] \in Terminal => sent'[c][i] = "delta"
  BY <1>1, <1>2, SentBy
<1>5. TypeOK'
  BY <1>1, <1>3
     DEF StreamInv, TypeOK, Event, Decline, Go, Stages, Inside, Replying, Looping,
         Before
<1>6. \A d \in Chat \ {c} : Same(d)
  BY <1>3 DEF StreamInv, TypeOK, Same, Decline, Go
<1>7. Text(c)'
  BY DEF StreamInv, TypeOK, Text, Decline, Go, Early, Closing, Before, Looping
<1>8. Closes(c)'
  BY <1>4, <1>7
     DEF StreamInv, TypeOK, Text, Closes, Ends, Decline, Go, Over, Terminal, Early,
         Closing, Before, Looping
<1>9. Flag(c)'
  BY <1>4
     DEF StreamInv, TypeOK, Flag, Cancelled, Decline, Go, Early, Replying, Before,
         Looping, Over, Terminal
<1> QED BY <1>5, <1>6, <1>7, <1>8, <1>9, OneChat

LEMMA DeclinedKeeps ==
    ASSUME StreamInv, NEW c \in Chat, Declined(c)
    PROVE  StreamInv'
<1>1. "done" \in Event /\ stage[c] \notin Over /\ read' = read
  BY DEF Declined, Event, Terminal, Before, Over, Looping
<1>2. BlockingSend(c, "done") \/ Delivered(c, "done") \/ UNCHANGED sent
  BY DEF Declined
<1>3. /\ sent' \in [Chat -> Seq(Event)]
      /\ \A d \in Chat : Len(sent'[d]) - read'[d] \in 0..ChanCap
      /\ \A d \in Chat \ {c} : sent'[d] = sent[d]
  BY <1>1, <1>2, SendEffect DEF StreamInv
<1>4. /\ ClosesLast(c)'
      /\ "done" \notin Terminal => Silent(c)'
      /\ BlockingSend(c, "done") /\ peer[c] = "live" => Ends(c, {"done"})'
      /\ \A i \in 1..Len(sent'[c]) : sent'[c][i] \in Terminal => sent'[c][i] = "done"
  BY <1>1, <1>2, SentBy
<1>5. TypeOK'
  BY <1>1, <1>3
     DEF StreamInv, TypeOK, Event, Declined, Go, Leave, Stages, Inside, Replying,
         Looping, Before
<1>6. \A d \in Chat \ {c} : Same(d)
  BY <1>3 DEF StreamInv, TypeOK, Same, Declined, Go, Leave
<1>7. Text(c)'
  BY DEF StreamInv, TypeOK, Text, Declined, Go, Leave, Early, Closing, Before, Looping
<1>8. Closes(c)'
  BY <1>4, <1>7
     DEF StreamInv, TypeOK, Text, Closes, Ends, Declined, Go, Leave, Over, Terminal,
         Early, Closing, Before, Looping
<1>9. Flag(c)'
  BY <1>4
     DEF StreamInv, TypeOK, Flag, Cancelled, Declined, Go, Leave, Early, Replying,
         Before, Looping, Over, Terminal
<1> QED BY <1>5, <1>6, <1>7, <1>8, <1>9, OneChat

LEMMA TokenKeeps ==
    ASSUME StreamInv, NEW c \in Chat, NEW then \in Looping, Token(c, then)
    PROVE  StreamInv'
<1>1. TypeOK'
  <2>1. gen' \in [Chat -> 0..MaxTokens]
    BY StreamShape DEF StreamInv, TypeOK, Token
  <2> QED BY <2>1 DEF StreamInv, TypeOK, Token, Go, Stages, Inside, Replying, Looping, Before
<1>2. \A d \in Chat \ {c} : Same(d)
  BY DEF StreamInv, TypeOK, Same, Token, Go
<1>3. Text(c)'
  BY DEF StreamInv, TypeOK, Text, Token, Go, Early, Closing, Before, Looping
<1>4. Closes(c)'
  <2>1. stage[c] = "decode" /\ stage'[c] \in Looping /\ sent' = sent
    BY DEF StreamInv, TypeOK, Token, Go
  <2>2. Silent(c) /\ ClosesLast(c)
    BY <2>1 DEF StreamInv, Closes, Over
  <2> QED BY <2>1, <2>2 DEF Closes, Silent, ClosesLast, Looping
<1>5. Flag(c)'
  BY DEF StreamInv, TypeOK, Flag, Closes, Silent, Cancelled, Token, Go, Early, Replying,
         Before, Looping, Over, Terminal
<1> QED BY <1>1, <1>2, <1>3, <1>4, <1>5, OneChat

LEMMA EmitKeeps ==
    ASSUME StreamInv, NEW c \in Chat, Emit(c)
    PROVE  StreamInv'
<1>1. "delta" \in Event /\ stage[c] \notin Over /\ read' = read
  BY DEF Emit, Event, Terminal, Before, Over, Looping
<1>2. BlockingSend(c, "delta") \/ Delivered(c, "delta") \/ UNCHANGED sent
  BY DEF Emit
<1>3. /\ sent' \in [Chat -> Seq(Event)]
      /\ \A d \in Chat : Len(sent'[d]) - read'[d] \in 0..ChanCap
      /\ \A d \in Chat \ {c} : sent'[d] = sent[d]
  BY <1>1, <1>2, SendEffect DEF StreamInv
<1>4. /\ ClosesLast(c)'
      /\ "delta" \notin Terminal => Silent(c)'
      /\ BlockingSend(c, "delta") /\ peer[c] = "live" => Ends(c, {"delta"})'
      /\ \A i \in 1..Len(sent'[c]) : sent'[c][i] \in Terminal => sent'[c][i] = "delta"
  BY <1>1, <1>2, SentBy
<1>5. TypeOK'
  BY <1>1, <1>3
     DEF StreamInv, TypeOK, Event, Emit, Go, Stages, Inside, Replying, Looping, Before
<1>6. \A d \in Chat \ {c} : Same(d)
  BY <1>3 DEF StreamInv, TypeOK, Same, Emit, Go
<1>7. Text(c)'
  BY DEF StreamInv, TypeOK, Text, Emit, Go, Early, Closing, Before, Looping
<1>8. Closes(c)'
  BY <1>4, <1>7
     DEF StreamInv, TypeOK, Text, Closes, Ends, Emit, Go, Over, Terminal, Early,
         Closing, Before, Looping
<1>9. Flag(c)'
  BY <1>4
     DEF StreamInv, TypeOK, Flag, Cancelled, Emit, Go, Early, Replying, Before, Looping,
         Over, Terminal
<1> QED BY <1>5, <1>6, <1>7, <1>8, <1>9, OneChat

LEMMA ClientGoneKeeps ==
    ASSUME StreamInv, NEW c \in Chat, ClientGone(c)
    PROVE  StreamInv'
<1>1. TypeOK'
  BY DEF StreamInv, TypeOK, ClientGone, Go, Leave, GivesUp, Closed, Stages, Inside,
         Replying, Looping, Before
<1>2. \A d \in Chat \ {c} : Same(d)
  BY DEF StreamInv, TypeOK, Same, ClientGone, Go, Leave, GivesUp, Closed
<1>3. Text(c)'
  BY DEF StreamInv, TypeOK, Text, ClientGone, Go, Leave, GivesUp, Closed, Early, Closing,
         Before, Looping
<1>4. Closes(c)'
  BY DEF StreamInv, TypeOK, Text, Closes, Silent, ClosesLast, Ends, ClientGone, Go, Leave,
         GivesUp, Closed, Over, Terminal, Early, Closing, Before, Looping
<1>5. Flag(c)'
  BY DEF StreamInv, TypeOK, Flag, Closes, Silent, Cancelled, ClientGone, Go, Leave, GivesUp,
         Closed, Early, Replying, Before, Looping, Over, Terminal
<1> QED BY <1>1, <1>2, <1>3, <1>4, <1>5, OneChat

LEMMA StopUnsentKeeps ==
    ASSUME StreamInv, NEW c \in Chat, StopUnsent(c)
    PROVE  StreamInv'
<1>1. TypeOK'
  BY DEF StreamInv, TypeOK, StopUnsent, Go, Stages, Inside, Replying, Looping, Before
<1>2. \A d \in Chat \ {c} : Same(d)
  BY DEF StreamInv, TypeOK, Same, StopUnsent, Go
<1>3. Text(c)'
  BY DEF StreamInv, TypeOK, Text, StopUnsent, Go, Early, Closing, Before, Looping
<1>4. Closes(c)'
  BY DEF StreamInv, TypeOK, Text, Closes, Silent, ClosesLast, Ends, StopUnsent, Go, Over,
         Terminal, Early, Closing, Before, Looping
<1>5. Flag(c)'
  BY DEF StreamInv, TypeOK, Flag, Closes, Silent, Cancelled, StopUnsent, Go, Early,
         Replying, Before, Looping, Over, Terminal
<1> QED BY <1>1, <1>2, <1>3, <1>4, <1>5, OneChat

LEMMA LoopEndsKeeps ==
    ASSUME StreamInv, NEW c \in Chat, LoopEnds(c)
    PROVE  StreamInv'
<1>1. TypeOK'
  BY DEF StreamInv, TypeOK, LoopEnds, Go, Stages, Inside, Replying, Looping, Before
<1>2. \A d \in Chat \ {c} : Same(d)
  BY DEF StreamInv, TypeOK, Same, LoopEnds, Go
<1>3. Text(c)'
  BY DEF StreamInv, TypeOK, Text, LoopEnds, Go, Early, Closing, Before, Looping
<1>4. Closes(c)'
  BY DEF StreamInv, TypeOK, Text, Closes, Silent, ClosesLast, Ends, LoopEnds, Go, Over,
         Terminal, Early, Closing, Before, Looping
<1>5. Flag(c)'
  BY DEF StreamInv, TypeOK, Flag, Closes, Silent, Cancelled, LoopEnds, Go, Early, Replying,
         Before, Looping, Over, Terminal
<1> QED BY <1>1, <1>2, <1>3, <1>4, <1>5, OneChat

LEMMA KairosKeeps ==
    ASSUME StreamInv, NEW c \in Chat, Kairos(c)
    PROVE  StreamInv'
<1>1. "kairos" \in Event /\ stage[c] \notin Over /\ read' = read
  BY DEF Kairos, Event, Terminal, Before, Over, Looping
<1>2. BlockingSend(c, "kairos") \/ Delivered(c, "kairos") \/ UNCHANGED sent
  BY DEF Kairos
<1>3. /\ sent' \in [Chat -> Seq(Event)]
      /\ \A d \in Chat : Len(sent'[d]) - read'[d] \in 0..ChanCap
      /\ \A d \in Chat \ {c} : sent'[d] = sent[d]
  BY <1>1, <1>2, SendEffect DEF StreamInv
<1>4. /\ ClosesLast(c)'
      /\ "kairos" \notin Terminal => Silent(c)'
      /\ BlockingSend(c, "kairos") /\ peer[c] = "live" => Ends(c, {"kairos"})'
      /\ \A i \in 1..Len(sent'[c]) : sent'[c][i] \in Terminal => sent'[c][i] = "kairos"
  BY <1>1, <1>2, SentBy
<1>5. TypeOK'
  BY <1>1, <1>3
     DEF StreamInv, TypeOK, Event, Kairos, Go, Stages, Inside, Replying, Looping, Before
<1>6. \A d \in Chat \ {c} : Same(d)
  BY <1>3 DEF StreamInv, TypeOK, Same, Kairos, Go
<1>7. Text(c)'
  BY DEF StreamInv, TypeOK, Text, Kairos, Go, Early, Closing, Before, Looping
<1>8. Closes(c)'
  BY <1>4, <1>7
     DEF StreamInv, TypeOK, Text, Closes, Ends, Kairos, Go, Over, Terminal, Early,
         Closing, Before, Looping
<1>9. Flag(c)'
  BY <1>4
     DEF StreamInv, TypeOK, Flag, Cancelled, Kairos, Go, Early, Replying, Before,
         Looping, Over, Terminal
<1> QED BY <1>5, <1>6, <1>7, <1>8, <1>9, OneChat

LEMMA FlushKeeps ==
    ASSUME StreamInv, NEW c \in Chat, Flush(c)
    PROVE  StreamInv'
<1>1. "delta" \in Event /\ stage[c] \notin Over /\ read' = read
  BY DEF Flush, Event, Terminal, Before, Over, Looping
<1>2. BlockingSend(c, "delta") \/ Delivered(c, "delta") \/ UNCHANGED sent
  BY DEF Flush
<1>3. /\ sent' \in [Chat -> Seq(Event)]
      /\ \A d \in Chat : Len(sent'[d]) - read'[d] \in 0..ChanCap
      /\ \A d \in Chat \ {c} : sent'[d] = sent[d]
  BY <1>1, <1>2, SendEffect DEF StreamInv
<1>4. /\ ClosesLast(c)'
      /\ "delta" \notin Terminal => Silent(c)'
      /\ BlockingSend(c, "delta") /\ peer[c] = "live" => Ends(c, {"delta"})'
      /\ \A i \in 1..Len(sent'[c]) : sent'[c][i] \in Terminal => sent'[c][i] = "delta"
  BY <1>1, <1>2, SentBy
<1>5. TypeOK'
  BY <1>1, <1>3
     DEF StreamInv, TypeOK, Event, Flush, Go, Stages, Inside, Replying, Looping, Before
<1>6. \A d \in Chat \ {c} : Same(d)
  BY <1>3 DEF StreamInv, TypeOK, Same, Flush, Go
<1>7. Text(c)'
  BY DEF StreamInv, TypeOK, Text, Flush, Go, Early, Closing, Before, Looping
<1>8. Closes(c)'
  BY <1>4, <1>7
     DEF StreamInv, TypeOK, Text, Closes, Ends, Flush, Go, Over, Terminal, Early,
         Closing, Before, Looping
<1>9. Flag(c)'
  BY <1>4
     DEF StreamInv, TypeOK, Flag, Cancelled, Flush, Go, Early, Replying, Before,
         Looping, Over, Terminal
<1> QED BY <1>5, <1>6, <1>7, <1>8, <1>9, OneChat

LEMMA ReleaseKeeps ==
    ASSUME StreamInv, NEW c \in Chat, Release(c)
    PROVE  StreamInv'
<1>1. "delta" \in Event /\ stage[c] \notin Over /\ read' = read
  BY DEF Release, Event, Terminal, Before, Over, Looping
<1>2. BlockingSend(c, "delta") \/ Delivered(c, "delta") \/ UNCHANGED sent
  BY DEF Release
<1>3. /\ sent' \in [Chat -> Seq(Event)]
      /\ \A d \in Chat : Len(sent'[d]) - read'[d] \in 0..ChanCap
      /\ \A d \in Chat \ {c} : sent'[d] = sent[d]
  BY <1>1, <1>2, SendEffect DEF StreamInv
<1>4. /\ ClosesLast(c)'
      /\ "delta" \notin Terminal => Silent(c)'
      /\ BlockingSend(c, "delta") /\ peer[c] = "live" => Ends(c, {"delta"})'
      /\ \A i \in 1..Len(sent'[c]) : sent'[c][i] \in Terminal => sent'[c][i] = "delta"
  BY <1>1, <1>2, SentBy
<1>5. TypeOK'
  <2>1. out' \in [Chat -> 0..MaxTokens]
    BY StreamShape DEF StreamInv, TypeOK, Release
  <2> QED BY <1>1, <1>3, <2>1 DEF StreamInv, TypeOK, Event, Release
<1>6. \A d \in Chat \ {c} : Same(d)
  BY <1>3 DEF StreamInv, TypeOK, Same, Release, Go
<1>7. Text(c)'
  BY DEF StreamInv, TypeOK, Text, Release, Go, Early, Closing, Before, Looping
<1>8. Closes(c)'
  BY <1>4, <1>7
     DEF StreamInv, TypeOK, Text, Closes, Ends, Release, Go, Over, Terminal, Early,
         Closing, Before, Looping
<1>9. Flag(c)'
  BY <1>4
     DEF StreamInv, TypeOK, Flag, Cancelled, Release, Go, Early, Replying, Before,
         Looping, Over, Terminal
<1> QED BY <1>5, <1>6, <1>7, <1>8, <1>9, OneChat

LEMMA ReleasedKeeps ==
    ASSUME StreamInv, NEW c \in Chat, Released(c)
    PROVE  StreamInv'
<1>1. TypeOK'
  BY DEF StreamInv, TypeOK, Released, Go, GivesUp, Closed, Stages, Inside, Replying,
         Looping, Before
<1>2. \A d \in Chat \ {c} : Same(d)
  BY DEF StreamInv, TypeOK, Same, Released, Go, GivesUp, Closed
<1>3. Text(c)'
  BY DEF StreamInv, TypeOK, Text, Released, Go, GivesUp, Closed, Early, Closing, Before, Looping
<1>4. Closes(c)'
  BY DEF StreamInv, TypeOK, Text, Closes, Silent, ClosesLast, Ends, Released, Go, GivesUp,
         Closed, Over, Terminal, Early, Closing, Before, Looping
<1>5. Flag(c)'
  BY DEF StreamInv, TypeOK, Flag, Closes, Silent, Cancelled, Released, Go, GivesUp, Closed,
         Early, Replying, Before, Looping, Over, Terminal
<1> QED BY <1>1, <1>2, <1>3, <1>4, <1>5, OneChat

LEMMA VetoKeeps ==
    ASSUME StreamInv, NEW c \in Chat, Veto(c)
    PROVE  StreamInv'
<1>1. "delta" \in Event /\ stage[c] \notin Over /\ read' = read
  BY DEF Veto, Event, Terminal, Before, Over, Looping
<1>2. BlockingSend(c, "delta") \/ Delivered(c, "delta") \/ UNCHANGED sent
  BY DEF Veto
<1>3. /\ sent' \in [Chat -> Seq(Event)]
      /\ \A d \in Chat : Len(sent'[d]) - read'[d] \in 0..ChanCap
      /\ \A d \in Chat \ {c} : sent'[d] = sent[d]
  BY <1>1, <1>2, SendEffect DEF StreamInv
<1>4. /\ ClosesLast(c)'
      /\ "delta" \notin Terminal => Silent(c)'
      /\ BlockingSend(c, "delta") /\ peer[c] = "live" => Ends(c, {"delta"})'
      /\ \A i \in 1..Len(sent'[c]) : sent'[c][i] \in Terminal => sent'[c][i] = "delta"
  BY <1>1, <1>2, SentBy
<1>5. TypeOK'
  BY <1>1, <1>3
     DEF StreamInv, TypeOK, Event, Veto, Go, GivesUp, Closed, Delivered, Stages, Inside,
         Replying, Looping, Before
<1>6. \A d \in Chat \ {c} : Same(d)
  BY <1>3 DEF StreamInv, TypeOK, Same, Veto, Go, GivesUp, Closed, Delivered
<1>7. Text(c)'
  BY DEF StreamInv, TypeOK, Text, Veto, Go, GivesUp, Closed, Delivered, Early, Closing,
         Before, Looping
<1>8. Closes(c)'
  BY <1>4, <1>7
     DEF StreamInv, TypeOK, Text, Closes, Ends, Veto, Go, GivesUp, Closed, Delivered,
         Over, Terminal, Early, Closing, Before, Looping
<1>9. Flag(c)'
  BY <1>4
     DEF StreamInv, TypeOK, Flag, Cancelled, Veto, Go, GivesUp, Closed, Delivered,
         Early, Replying, Before, Looping, Over, Terminal
<1> QED BY <1>5, <1>6, <1>7, <1>8, <1>9, OneChat

LEMMA EndKeeps ==
    ASSUME StreamInv, NEW c \in Chat, End(c)
    PROVE  StreamInv'
<1>1. TypeOK'
  BY DEF StreamInv, TypeOK, End, Go, Stages, Inside, Replying, Looping, Before
<1>2. \A d \in Chat \ {c} : Same(d)
  BY DEF StreamInv, TypeOK, Same, End, Go
<1>3. Text(c)'
  BY DEF StreamInv, TypeOK, Text, End, Go, Early, Closing, Before, Looping
<1>4. Closes(c)'
  BY DEF StreamInv, TypeOK, Text, Closes, Silent, ClosesLast, Ends, End, Go, Over, Terminal,
         Early, Closing, Before, Looping
<1>5. Flag(c)'
  BY DEF StreamInv, TypeOK, Flag, Closes, Silent, Cancelled, End, Go, Early, Replying,
         Before, Looping, Over, Terminal
<1> QED BY <1>1, <1>2, <1>3, <1>4, <1>5, OneChat

LEMMA ReportKeeps ==
    ASSUME StreamInv, NEW c \in Chat, Report(c)
    PROVE  StreamInv'
<1>0. PICK ev \in {"done", "cancelled"} : stage[c] = ev /\ BlockingSend(c, ev)
  BY DEF Report
<1>1. ev \in Event /\ stage[c] \notin Over /\ read' = read
  BY <1>0 DEF Report, Event, Terminal, Before, Over, Looping
<1>2. BlockingSend(c, ev) \/ Delivered(c, ev) \/ UNCHANGED sent
  BY <1>0
<1>3. /\ sent' \in [Chat -> Seq(Event)]
      /\ \A d \in Chat : Len(sent'[d]) - read'[d] \in 0..ChanCap
      /\ \A d \in Chat \ {c} : sent'[d] = sent[d]
  BY <1>1, <1>2, SendEffect DEF StreamInv
<1>4. /\ ClosesLast(c)'
      /\ ev \notin Terminal => Silent(c)'
      /\ BlockingSend(c, ev) /\ peer[c] = "live" => Ends(c, {ev})'
      /\ \A i \in 1..Len(sent'[c]) : sent'[c][i] \in Terminal => sent'[c][i] = ev
  BY <1>1, <1>2, SentBy
<1>5. TypeOK'
  BY <1>1, <1>3
     DEF StreamInv, TypeOK, Event, Report, Go, Stages, Inside, Replying, Looping, Before
<1>6. \A d \in Chat \ {c} : Same(d)
  BY <1>3 DEF StreamInv, TypeOK, Same, Report, Go
<1>7. Text(c)'
  BY DEF StreamInv, TypeOK, Text, Report, Go, Early, Closing, Before, Looping
<1>8. Closes(c)'
  BY <1>0, <1>4, <1>7
     DEF StreamInv, TypeOK, Text, Closes, Ends, Report, Go, Over, Terminal, Early,
         Closing, Before, Looping
<1>9. Flag(c)'
  BY <1>0, <1>4
     DEF StreamInv, TypeOK, Flag, Cancelled, Report, Go, Early, Replying, Before,
         Looping, Over, Terminal
<1> QED BY <1>5, <1>6, <1>7, <1>8, <1>9, OneChat

LEMMA ReturnKeeps ==
    ASSUME StreamInv, NEW c \in Chat, Return(c)
    PROVE  StreamInv'
<1>1. TypeOK'
  BY DEF StreamInv, TypeOK, Return, Go, Leave, Stages, Inside, Replying, Looping, Before
<1>2. \A d \in Chat \ {c} : Same(d)
  BY DEF StreamInv, TypeOK, Same, Return, Go, Leave
<1>3. Text(c)'
  BY DEF StreamInv, TypeOK, Text, Return, Go, Leave, Early, Closing, Before, Looping
<1>4. Closes(c)'
  BY DEF StreamInv, TypeOK, Text, Closes, Silent, ClosesLast, Ends, Return, Go, Leave, Over,
         Terminal, Early, Closing, Before, Looping
<1>5. Flag(c)'
  BY DEF StreamInv, TypeOK, Flag, Closes, Silent, Cancelled, Return, Go, Leave, Early,
         Replying, Before, Looping, Over, Terminal
<1> QED BY <1>1, <1>2, <1>3, <1>4, <1>5, OneChat

LEMMA DrainKeeps ==
    ASSUME StreamInv, NEW c \in Chat, Drain(c)
    PROVE  StreamInv'
<1>1. TypeOK'
  <2>1. /\ sent \in [Chat -> Seq(Event)] /\ read \in [Chat -> Nat] /\ ChanCap \in Nat
        /\ \A d \in Chat : Len(sent[d]) - read[d] \in 0..ChanCap
    BY StreamShape DEF StreamInv, TypeOK, Event
  <2>2. read' = [read EXCEPT ![c] = read[c] + 1] /\ read[c] < Len(sent[c]) /\ sent' = sent
    BY DEF Drain
  <2>3. read' \in [Chat -> Nat]
    BY <2>1, <2>2
  <2>4. \A d \in Chat : Len(sent'[d]) - read'[d] \in 0..ChanCap
    <3> SUFFICES ASSUME NEW d \in Chat
                 PROVE  Len(sent[d]) - read'[d] \in 0..ChanCap
      BY <2>2
    <3>1. sent[d] \in Seq(Event) /\ Len(sent[d]) \in Nat /\ read[d] \in Nat
      BY <2>1
    <3>2. read'[d] = IF d = c THEN read[d] + 1 ELSE read[d]
      BY <2>1, <2>2
    <3> QED BY <2>1, <2>2, <3>1, <3>2
  <2> QED BY <2>3, <2>4 DEF StreamInv, TypeOK, Drain
<1>2. \A d \in Chat \ {c} : Same(d)
  BY DEF StreamInv, TypeOK, Same, Drain, Go
<1>3. Text(c)'
  BY DEF StreamInv, TypeOK, Text, Drain, Go, Early, Closing, Before, Looping
<1>4. Closes(c)'
  BY DEF StreamInv, TypeOK, Text, Closes, Silent, ClosesLast, Ends, Drain, Go, Over,
         Terminal, Early, Closing, Before, Looping
<1>5. Flag(c)'
  BY DEF StreamInv, TypeOK, Flag, Closes, Silent, Cancelled, Drain, Go, Early, Replying,
         Before, Looping, Over, Terminal
<1> QED BY <1>1, <1>2, <1>3, <1>4, <1>5, OneChat

LEMMA StallKeeps ==
    ASSUME StreamInv, NEW c \in Chat, Stall(c)
    PROVE  StreamInv'
<1>1. TypeOK'
  BY DEF StreamInv, TypeOK, Stall, Go, Stages, Inside, Replying, Looping, Before
<1>2. \A d \in Chat \ {c} : Same(d)
  BY DEF StreamInv, TypeOK, Same, Stall, Go
<1>3. Text(c)'
  BY DEF StreamInv, TypeOK, Text, Stall, Go, Early, Closing, Before, Looping
<1>4. Closes(c)'
  BY DEF StreamInv, TypeOK, Text, Closes, Silent, ClosesLast, Ends, Stall, Go, Over,
         Terminal, Early, Closing, Before, Looping
<1>5. Flag(c)'
  BY DEF StreamInv, TypeOK, Flag, Closes, Silent, Cancelled, Stall, Go, Early, Replying,
         Before, Looping, Over, Terminal
<1> QED BY <1>1, <1>2, <1>3, <1>4, <1>5, OneChat

LEMMA CloseKeeps ==
    ASSUME StreamInv, NEW c \in Chat, Close(c)
    PROVE  StreamInv'
<1>1. TypeOK'
  BY DEF StreamInv, TypeOK, Close, Go, Stages, Inside, Replying, Looping, Before
<1>2. \A d \in Chat \ {c} : Same(d)
  BY DEF StreamInv, TypeOK, Same, Close, Go
<1>3. Text(c)'
  BY DEF StreamInv, TypeOK, Text, Close, Go, Early, Closing, Before, Looping
<1>4. Closes(c)'
  BY DEF StreamInv, TypeOK, Text, Closes, Silent, ClosesLast, Ends, Close, Go, Over,
         Terminal, Early, Closing, Before, Looping
<1>5. Flag(c)'
  BY DEF StreamInv, TypeOK, Flag, Closes, Silent, Cancelled, Close, Go, Early, Replying,
         Before, Looping, Over, Terminal
<1> QED BY <1>1, <1>2, <1>3, <1>4, <1>5, OneChat

LEMMA AbortKeeps ==
    ASSUME StreamInv, NEW c \in Chat, Abort(c)
    PROVE  StreamInv'
<1>1. TypeOK'
  BY DEF StreamInv, TypeOK, Abort, Go, Stages, Inside, Replying, Looping, Before
<1>2. \A d \in Chat \ {c} : Same(d)
  BY DEF StreamInv, TypeOK, Same, Abort, Go
<1>3. Text(c)'
  BY DEF StreamInv, TypeOK, Text, Abort, Go, Early, Closing, Before, Looping
<1>4. Closes(c)'
  BY DEF StreamInv, TypeOK, Text, Closes, Silent, ClosesLast, Ends, Abort, Go, Over,
         Terminal, Early, Closing, Before, Looping
<1>5. Flag(c)'
  BY DEF StreamInv, TypeOK, Flag, Closes, Silent, Cancelled, Abort, Go, Early, Replying,
         Before, Looping, Over, Terminal
<1> QED BY <1>1, <1>2, <1>3, <1>4, <1>5, OneChat

-----------------------------------------------------------------------------
LEMMA InitStream == Init => StreamInv
<1> SUFFICES ASSUME Init PROVE StreamInv
  OBVIOUS
<1>1. TypeOK
  BY StreamShape DEF Init, TypeOK, Stages, Inside
<1>2. \A c \in Chat : Text(c) /\ Closes(c) /\ Flag(c)
  <2> SUFFICES ASSUME NEW c \in Chat
               PROVE  Text(c) /\ Closes(c) /\ Flag(c)
    OBVIOUS
  <2>1. /\ stage[c] = "new" /\ sent[c] = << >> /\ gen[c] = 0 /\ out[c] = 0
        /\ cut[c] = "new" /\ c \notin sessions /\ 1..Len(sent[c]) = {}
    BY DEF Init
  <2>2. "new" \notin Replying /\ "new" \notin Closing
    BY DEF Replying, Looping, Closing
  <2> QED BY <2>1, <2>2 DEF Text, Closes, Flag, Silent, ClosesLast
<1> QED BY <1>1, <1>2 DEF StreamInv

LEMMA NextStream == StreamInv /\ [Next]_vars => StreamInv'
<1> SUFFICES ASSUME StreamInv, [Next]_vars PROVE StreamInv'
  OBVIOUS
<1>1. CASE UNCHANGED vars
  <2>1. TypeOK'
    BY <1>1 DEF StreamInv, TypeOK, vars
  <2>2. \A d \in Chat : Same(d)
    BY <1>1 DEF Same, vars
  <2> QED BY <2>1, <2>2, Untouched DEF StreamInv, Same
<1>2. ASSUME NEW c \in Chat, Turn(c)
      PROVE  StreamInv'
  BY <1>2, AcquireKeeps, RecallKeeps, PromptFailsKeeps, SynthesizeKeeps, DeclineKeeps,
     DeclinedKeeps, TokenKeeps, EmitKeeps, ClientGoneKeeps, StopUnsentKeeps, LoopEndsKeeps,
     KairosKeeps, FlushKeeps, ReleaseKeeps, ReleasedKeeps, VetoKeeps, EndKeeps, ReportKeeps,
     ReturnKeeps DEF Turn
<1> QED BY <1>1, <1>2, RequestKeeps, DrainKeeps, StallKeeps, CloseKeeps, AbortKeeps DEF Next

\* The invariant the three results rest on.
THEOREM StreamInvariant == Spec => []StreamInv
BY InitStream, NextStream, PTL DEF Spec

\* Every stream is closed at most once, by its last event, and a client that stayed
\* has the whole reply before [DONE] (run_kvdecode_chat's sends).
THEOREM StreamsAreWhole == Spec => []StreamWhole
<1>1. StreamInv => StreamWhole
  BY DEF StreamInv, StreamWhole, Closes, ClosesLast, Ends
<1> QED BY <1>1, StreamInvariant, PTL

\* An abort that arrives while the reply is made is never reported as [DONE]
\* (v1_abort, the test of cancel_child at the turn's end).
THEOREM AbortsAreReported == Spec => []AbortReported
<1>1. StreamInv => AbortReported
  BY DEF StreamInv, AbortReported, Flag
<1> QED BY <1>1, StreamInvariant, PTL
=============================================================================
