--------------------------- MODULE ServerCall_proofs ---------------------------
(***************************************************************************)
(* One call on the Go SDK's server, for any window, any number of senders  *)
(* and any number of items: one terminal frame, output in order and within *)
(* credit, no honest caller refused, no item lost before the end of input. *)
(***************************************************************************)
EXTENDS ServerCall, SequenceLemmas

-------------------------------------------------------------------------------
(* The inductive invariant.                                                *)

One(b) == IF b THEN 1 ELSE 0

\* The types of TypeOK without the bounds that need an argument.
Types ==
    /\ honest \in BOOLEAN /\ ended \in BOOLEAN /\ over \in BOOLEAN
    /\ lost \in BOOLEAN /\ windows \in Nat
    /\ in \in Seq({"item", "end", "cancel", "window"})
    /\ sent \in 0..MaxIn /\ mayUse \in Int /\ granted \in 0..MaxOut
    /\ pc \in {"start", "grant", "handler", "allow", "window", "closing", "closed", "finish"}
    /\ answer \in {"result", "error"} /\ reader \in {"read", "arm", "push", "pushEnd", "gone"}
    /\ fin \in [Finishers -> {"no", "cas", "send", "cleanup", "done"}]
    /\ cause \in {"none", "cancelled", "deadline", "idle", "lost", "protocol", "output", "complete"}
    /\ present \in BOOLEAN /\ terminal \in BOOLEAN
    /\ credit \in Nat /\ creditClosed \in BOOLEAN
    /\ input \in Seq({"item", "end", "fail"}) /\ inputClosed \in BOOLEAN
    /\ allowance \in Nat /\ read \in Nat /\ sawEnd \in BOOLEAN
    /\ sp \in [Senders -> {"none", "acquire", "lock", "send"}]
    /\ outputMu \in Senders \cup {"free", "run"} /\ outputSequence \in Nat
    /\ outputClosed \in BOOLEAN

\* One of call.finish's callers wins the swap, sends and cleans up.
FinishInv ==
    /\ inflight = One(present)
    /\ pc # "finish" => fin["run"] = "no"
    /\ \A a \in Finishers : fin[a] \in {"send", "cleanup"} => terminal /\ present
    /\ \A a, b \in Finishers :
         fin[a] \in {"send", "cleanup"} /\ fin[b] \in {"send", "cleanup"} => a = b
    /\ ~present => terminal

TerminalInv ==
    /\ \A i, j \in Terminals : i = j
    /\ ~terminal => Terminals = {}
    /\ \A a \in Finishers : fin[a] = "send" => Terminals = {}
    /\ \A a \in Finishers : fin[a] = "cleanup" /\ ~lost => Terminals # {}
    /\ ~present /\ ~lost => Terminals # {}

\* The output lock, and what was sent under it.
LockInv ==
    /\ \A s \in Senders : sp[s] = "send" <=> outputMu = s
    /\ outputMu = "run" <=> pc = "closed"
    /\ \A s \in Senders : sp[s] = "send" => ~outputClosed
    /\ pc = "closed" => outputClosed

OutInv ==
    /\ out \in Seq([kind : {"item", "end", "result", "error"}, seq : Nat])
    /\ \A i \in DOMAIN out :
         /\ out[i].kind = "item" => out[i].seq < outputSequence
         /\ out[i].kind = "end" => outputClosed
         /\ out[i].kind # "item" => out[i].seq = 0
    /\ OutputInOrder

\* Credit is granted, under way, held, taken by a sender, or used.
Taken == {s \in Senders : sp[s] \in {"lock", "send"}}
CreditInv ==
    /\ credit + Count(in, "window") + Cardinality(Taken) + outputSequence <= granted
    /\ Cardinality(Items) <= outputSequence

\* Items are sent, under way, in the reader's hands, queued, or read.
Handed == IF reader \in {"arm", "push"} THEN 1 ELSE 0
ItemsFirst(q) == \A i \in DOMAIN q : i < Len(q) => q[i] = "item"
ItemsInv ==
    /\ read + Count(input, "item") + Handed + Count(in, "item") <= sent
    /\ pc = "start" => allowance = 0 /\ Count(input, "item") = 0 /\ Handed = 0
    /\ pc # "start" =>
         allowance + Count(input, "item") + Handed + (IF pc = "allow" THEN 1 ELSE 0) <= Window
    /\ ItemsFirst(input)

\* The end of the input comes last; a queue fails only with the call.
Ending == reader = "pushEnd" \/ Count(input, "end") # 0 \/ sawEnd
Failed == Count(input, "fail") # 0
EndInv ==
    /\ Ending => inputClosed
    /\ reader \in {"arm", "push"} => Count(input, "end") = 0
    /\ reader = "pushEnd" => ~sawEnd /\ Count(input, "end") = 0
    /\ lost => in = <<>>
    /\ Failed => cause # "none"

\* What holds of a caller that keeps to the protocol.
NothingAfterEnd(q) == \A i, j \in DOMAIN q : i < j /\ q[i] = "end" => q[j] \notin {"item", "end"}
OrderInv ==
    /\ mayUse >= 0
    /\ Count(in, "item") # 0 => HasInput
    /\ Count(in, "end") # 0 => ended
    /\ NothingAfterEnd(in)
    /\ Ending => ended /\ Count(in, "item") = 0 /\ Count(in, "end") = 0
RoomInv ==
    cause = "none" =>
        /\ inputClosed => Ending
        /\ mayUse + windows + Count(in, "item") + (IF pc = "window" THEN 1 ELSE 0)
             + (IF pc = "grant" THEN Window ELSE 0) <= allowance
ReadInv ==
    /\ ~lost /\ present /\ ~Failed =>
         sent = read + Count(input, "item") + Handed + Count(in, "item")
    /\ Ending /\ ~Failed => sent = read + Count(input, "item")
    /\ sawEnd => read = sent

HonestInv == honest => OrderInv /\ RoomInv /\ ReadInv /\ cause # "protocol"

CallInv ==
    /\ Types /\ FinishInv /\ TerminalInv /\ LockInv /\ OutInv /\ CreditInv
    /\ ItemsInv /\ EndInv /\ HonestInv

-------------------------------------------------------------------------------
(* Types.                                                                  *)

Symbols == {"item", "end", "cancel", "window"}
Events == {"item", "end", "fail"}

LEMMA PushTypes ==
  ASSUME input \in Seq(Events), NEW e \in Events, Push(e)
  PROVE  input' \in Seq(Events)
  BY AppendProperties DEF Push

LEMMA InTypes ==
  ASSUME in \in Seq(Symbols)
  PROVE  /\ \A f \in Symbols : Append(in, f) \in Seq(Symbols)
         /\ in # <<>> => Tail(in) \in Seq(Symbols) /\ Head(in) \in Symbols
  BY AppendProperties, TailByIndex

LEMMA InputTypes ==
  ASSUME input \in Seq(Events), input # <<>>
  PROVE  Tail(input) \in Seq(Events)
  BY TailByIndex

LEMMA AbortTypes ==
  ASSUME Types, NEW e \in {"cancelled", "idle", "lost", "protocol"}, Abort(e)
  PROVE  /\ input' \in Seq(Events)
         /\ cause' \in {"none", "cancelled", "deadline", "idle", "lost", "protocol", "output", "complete"}
         /\ creditClosed' = TRUE /\ inputClosed' = TRUE
  BY PushTypes DEF Types, Abort, Cancel, Events

LEMMA TypesInitially == ASSUME HandlerAssumption, Init PROVE Types
  <1>1. <<>> \in Seq({"item", "end", "cancel", "window"}) /\ <<>> \in Seq({"item", "end", "fail"})
    OBVIOUS
  <1>2. [a \in Finishers |-> "no"] \in [Finishers -> {"no", "cas", "send", "cleanup", "done"}]
    OBVIOUS
  <1>3. [s \in Senders |-> "none"] \in [Senders -> {"none", "acquire", "lock", "send"}]
    OBVIOUS
  <1>4. 0 \in 0..MaxIn /\ 0 \in 0..MaxOut
    BY DEF HandlerAssumption
  <1>5. in = <<>> /\ input = <<>> /\ fin = [a \in Finishers |-> "no"] /\ sp = [s \in Senders |-> "none"]
    BY DEF Init
  <1>6. /\ honest \in BOOLEAN /\ ended \in BOOLEAN /\ over \in BOOLEAN /\ lost \in BOOLEAN
        /\ present \in BOOLEAN /\ terminal \in BOOLEAN /\ creditClosed \in BOOLEAN
        /\ inputClosed \in BOOLEAN /\ sawEnd \in BOOLEAN /\ outputClosed \in BOOLEAN
    BY DEF Init
  <1>7. /\ windows = 0 /\ sent = 0 /\ mayUse = 0 /\ granted = 0 /\ credit = 0 /\ allowance = 0
        /\ read = 0 /\ outputSequence = 0
    BY DEF Init
  <1>8. pc = "start" /\ answer = "result" /\ reader = "read" /\ cause = "none" /\ outputMu = "free"
    BY DEF Init
  <1> QED BY <1>1, <1>2, <1>3, <1>4, <1>5, <1>6, <1>7, <1>8 DEF Types

LEMMA CallerTypes ==
  ASSUME Types, HandlerAssumption, CallerSteps \/ ConnectionLost
  PROVE  Types'
  <1> USE InTypes DEF HandlerAssumption, Symbols, Put, caller, wires, life, inp, outp
  <1>1. CASE CallerItem
    BY <1>1 DEF CallerItem, Types
  <1>2. CASE CallerEnd
    BY <1>2 DEF CallerEnd, Types
  <1>3. CASE CallerCancel
    BY <1>3 DEF CallerCancel, Types
  <1>4. CASE CallerGrants
    BY <1>4 DEF CallerGrants, Types
  <1>5. CASE CallerSeesWindow
    BY <1>5 DEF CallerSeesWindow, Types
  <1>6. CASE ConnectionLost
    <2>1. <<>> \in Seq({"item", "end", "cancel", "window"})
      OBVIOUS
    <2> QED BY <1>6, <2>1 DEF ConnectionLost, Types
  <1> QED BY <1>1, <1>2, <1>3, <1>4, <1>5, <1>6 DEF CallerSteps

LEMMA ReaderTypes ==
  ASSUME Types, HandlerAssumption, ReadStep
  PROVE  Types'
  <1> USE InTypes DEF Symbols, Events, caller, wires, life, inp, outp
  <1>1. CASE ReadStray
    BY <1>1 DEF ReadStray, Types
  <1>2. CASE ReadWindow
    BY <1>2 DEF ReadWindow, Reads, Types
  <1>3. CASE ReadCancel
    <2>1. Abort("cancelled") /\ ReaderAborts("cancelled") /\ in # <<>>
      BY <1>3 DEF ReadCancel, ReaderAborts, Reads
    <2>2. /\ input' \in Seq(Events) /\ creditClosed' = TRUE /\ inputClosed' = TRUE
          /\ cause' \in {"none", "cancelled", "deadline", "idle", "lost", "protocol", "output", "complete"}
      BY <2>1, AbortTypes
    <2>3. fin' \in [Finishers -> {"no", "cas", "send", "cleanup", "done"}]
      BY <2>1 DEF ReaderAborts, Finishers, Types
    <2> QED BY <2>1, <2>2, <2>3 DEF ReaderAborts, Types
  <1>4. CASE ReadItem
    BY <1>4 DEF ReadItem, ItemOK, Spent, Reads, Types
  <1>5. CASE ReadWrong
    <2>1. Abort("protocol") /\ ReaderAborts("protocol") /\ in # <<>>
      BY <1>5 DEF ReadWrong, ReaderAborts, Reads
    <2>2. /\ input' \in Seq(Events) /\ creditClosed' = TRUE /\ inputClosed' = TRUE
          /\ cause' \in {"none", "cancelled", "deadline", "idle", "lost", "protocol", "output", "complete"}
      BY <2>1, AbortTypes
    <2>3. fin' \in [Finishers -> {"no", "cas", "send", "cleanup", "done"}]
      BY <2>1 DEF ReaderAborts, Finishers, Types
    <2> QED BY <2>1, <2>2, <2>3 DEF ReaderAborts, Types
  <1>6. CASE ReadArm
    BY <1>6 DEF ReadArm, ArmIdle, Types
  <1>7. CASE ReadEnd
    BY <1>7 DEF ReadEnd, Reads, Types
  <1>8. CASE ReadPush
    BY <1>8, PushTypes DEF ReadPush, Types
  <1>9. CASE ReadLost
    <2>1. CASE present
      <3>1. Abort("lost")
        BY <1>9, <2>1 DEF ReadLost
      <3>2. /\ input' \in Seq(Events) /\ creditClosed' = TRUE /\ inputClosed' = TRUE
            /\ cause' \in {"none", "cancelled", "deadline", "idle", "lost", "protocol", "output", "complete"}
        BY <3>1, AbortTypes
      <3> QED BY <1>9, <3>2 DEF ReadLost, Types
    <2>2. CASE ~present
      BY <1>9, <2>2 DEF ReadLost, Types
    <2> QED BY <2>1, <2>2
  <1> QED BY <1>1, <1>2, <1>3, <1>4, <1>5, <1>6, <1>7, <1>8, <1>9 DEF ReadStep, ReadFrame

LEMMA RunTypes ==
  ASSUME Types, HandlerAssumption,
         RunSteps \/ HandlerSteps \/ HandlerReturns \/ CloseSend \/ DeadlinePasses \/ IdleFires
  PROVE  Types'
  <1> USE DEF Symbols, Events, Finishers, caller, wires, life, inp, outp
  <1>1. CASE Start
    BY <1>1 DEF Start, InitialAllowance, HandlerAssumption, Types
  <1>2. CASE Grant
    BY <1>2 DEF Grant, ArmIdle, HandlerAssumption, Types
  <1>3. CASE RecvAllows
    BY <1>3 DEF RecvAllows, Types
  <1>4. CASE RecvWindow
    BY <1>4 DEF RecvWindow, Types
  <1>5. CASE RecvItem
    BY <1>5, InputTypes DEF RecvItem, Types
  <1>6. CASE RecvEnd
    BY <1>6 DEF RecvEnd, Types
  <1>7. ASSUME NEW e, Return(e) PROVE Types'
    BY <1>7 DEF Return, Types
  <1>8. CASE CloseOutput
    <2>1. fin' \in [Finishers -> {"no", "cas", "send", "cleanup", "done"}]
      BY <1>8 DEF CloseOutput, Types
    <2>2. outputMu' \in Senders \cup {"free", "run"} /\ outputClosed' \in BOOLEAN /\ pc' \in {"finish", "closed"}
      BY <1>8 DEF CloseOutput, Types
    <2> QED BY <1>8, <2>1, <2>2 DEF CloseOutput, Types
  <1>9. CASE CloseSend
    BY <1>9 DEF CloseSend, Types
  <1>10. CASE SendEnd
    BY <1>10 DEF SendEnd, Types
  <1>11. CASE DeadlinePasses
    BY <1>11 DEF DeadlinePasses, Types
  <1>12. CASE IdleFires
    <2>1. Abort("idle")
      BY <1>12 DEF IdleFires
    <2>2. /\ input' \in Seq(Events) /\ creditClosed' = TRUE /\ inputClosed' = TRUE
          /\ cause' \in {"none", "cancelled", "deadline", "idle", "lost", "protocol", "output", "complete"}
      BY <2>1, AbortTypes
    <2> QED BY <1>12, <2>2 DEF IdleFires, Types
  <1> QED BY <1>1, <1>2, <1>3, <1>4, <1>5, <1>6, <1>7, <1>8, <1>9, <1>10, <1>11, <1>12
          DEF RunSteps, HandlerSteps, HandlerStops, HandlerReturns

LEMMA FinishTypes ==
  ASSUME Types, NEW a \in Finishers, Finish(a)
  PROVE  Types'
  <1> USE DEF caller, wires, life, inp, outp
  <1>1. CASE FinishSwap(a)
    <2>1. fin' \in [Finishers -> {"no", "cas", "send", "cleanup", "done"}]
      BY <1>1 DEF FinishSwap, Types
    <2>2. terminal' \in BOOLEAN
      BY <1>1 DEF FinishSwap, Types
    <2> QED BY <1>1, <2>1, <2>2 DEF FinishSwap, Types
  <1>2. CASE FinishSend(a)
    BY <1>2 DEF FinishSend, Types
  <1>3. CASE FinishCleanup(a)
    <2>1. fin' \in [Finishers -> {"no", "cas", "send", "cleanup", "done"}]
      BY <1>3 DEF FinishCleanup, Types
    <2>2. cause' \in {"none", "cancelled", "deadline", "idle", "lost", "protocol", "output", "complete"}
      BY <1>3 DEF FinishCleanup, Cancel, Types
    <2>3. creditClosed' \in BOOLEAN /\ present' \in BOOLEAN
      BY <1>3 DEF FinishCleanup
    <2>4. UNCHANGED <<caller, wires, pc, answer, reader, terminal, input, inputClosed, allowance,
                      read, sawEnd, credit, sp, outputMu, outputSequence, outputClosed>>
      BY <1>3 DEF FinishCleanup
    <2> QED BY <2>1, <2>2, <2>3, <2>4 DEF Types
  <1> QED BY <1>1, <1>2, <1>3 DEF Finish

LEMMA SenderTypes ==
  ASSUME Types, NEW s \in Senders, SendBegins(s) \/ SendUnfit(s) \/ SendSteps(s)
  PROVE  Types'
  <1> USE DEF caller, wires, life, inp, outp
  <1>1. CASE SendBegins(s)
    BY <1>1 DEF SendBegins, Types
  <1>2. CASE SendUnfit(s)
    BY <1>2 DEF SendUnfit, Cancel, Types
  <1>3. CASE SendAcquires(s)
    BY <1>3 DEF SendAcquires, Types
  <1>4. CASE SendFails(s)
    BY <1>4 DEF SendFails, Types
  <1>5. CASE SendLocks(s)
    BY <1>5 DEF SendLocks, Types
  <1>6. CASE SendItem(s)
    BY <1>6 DEF SendItem, Types
  <1> QED BY <1>1, <1>2, <1>3, <1>4, <1>5, <1>6 DEF SendSteps

LEMMA TypesStep ==
  ASSUME Types, HandlerAssumption, [Next]_vars
  PROVE  Types'
  <1>1. CASE UNCHANGED vars
    BY <1>1 DEF vars, caller, wires, life, inp, outp, Types
  <1> QED BY <1>1, CallerTypes, ReaderTypes, RunTypes, FinishTypes, SenderTypes DEF Next

-------------------------------------------------------------------------------
(* Which steps change what.                                                *)

\* serverCall.run comes to its call of finish.
ComesToFinish ==
  /\ pc # "finish" /\ pc' = "finish" /\ fin' = [fin EXCEPT !["run"] = "cas"]
  /\ UNCHANGED <<present, inflight, terminal>>

\* Nothing about the end of the call changes.
NoFinish ==
  /\ UNCHANGED <<present, inflight, fin, terminal>>
  /\ pc = "finish" => pc' = "finish"

LEMMA FinishKinds ==
  ASSUME [Next]_vars
  PROVE  \/ \E a \in Finishers : Finish(a)
         \/ IdleFires
         \/ fin["reader"] \in {"no", "done"} /\ (ReaderAborts("cancelled") \/ ReaderAborts("protocol"))
         \/ ComesToFinish
         \/ NoFinish
  <1> USE DEF caller, wires, life, inp, outp, NoFinish
  <1>1. CASE CallerSteps \/ ConnectionLost \/ DeadlinePasses
    BY <1>1 DEF CallerSteps, CallerItem, CallerEnd, CallerCancel, CallerGrants, CallerSeesWindow,
                ConnectionLost, DeadlinePasses
  <1>2. CASE ReadStep /\ fin["reader"] \in {"no", "done"}
    BY <1>2 DEF ReadStep, ReadFrame, ReadStray, ReadWindow, ReadCancel, ReadItem, ReadWrong,
                ReadEnd, ReadArm, ReadPush, ReadLost
  <1>3. CASE Start \/ Grant \/ RecvAllows \/ RecvWindow \/ RecvItem \/ RecvEnd \/ CloseSend
    BY <1>3 DEF Start, Grant, RecvAllows, RecvWindow, RecvItem, RecvEnd, CloseSend
  <1>4. CASE CloseOutput \/ SendEnd
    BY <1>4 DEF CloseOutput, SendEnd, ComesToFinish
  <1>5. ASSUME NEW e, Return(e), pc = "handler" PROVE ComesToFinish \/ NoFinish
    BY <1>5 DEF Return, ComesToFinish
  <1>6. ASSUME NEW s \in Senders, SendBegins(s) \/ SendUnfit(s) \/ SendSteps(s) PROVE NoFinish
    BY <1>6 DEF SendBegins, SendUnfit, SendSteps, SendAcquires, SendFails, SendLocks, SendItem
  <1>7. CASE UNCHANGED vars
    BY <1>7 DEF vars
  <1> QED BY <1>1, <1>2, <1>3, <1>4, <1>5, <1>6, <1>7
          DEF Next, RunSteps, HandlerSteps, HandlerStops, HandlerReturns

LEMMA OutKinds ==
  ASSUME [Next]_vars
  PROVE  /\ \/ UNCHANGED out
            \/ \E a \in Finishers : FinishSend(a)
            \/ \E s \in Senders : SendItem(s)
            \/ CloseSend \/ SendEnd
         /\ UNCHANGED lost \/ ConnectionLost
  <1> USE DEF caller, wires, life, inp, outp
  <1>1. CASE CallerSteps \/ ConnectionLost \/ DeadlinePasses \/ IdleFires
    BY <1>1 DEF CallerSteps, CallerItem, CallerEnd, CallerCancel, CallerGrants, CallerSeesWindow,
                ConnectionLost, DeadlinePasses, IdleFires
  <1>2. CASE ReadStep
    BY <1>2 DEF ReadStep, ReadFrame, ReadStray, ReadWindow, ReadCancel, ReadItem, ReadWrong,
                ReaderAborts, ReadEnd, ReadArm, ReadPush, ReadLost
  <1>3. CASE RunSteps \/ HandlerSteps \/ HandlerReturns \/ CloseSend
    BY <1>3 DEF RunSteps, HandlerSteps, HandlerStops, HandlerReturns, Return, Start, Grant,
                RecvAllows, RecvWindow, RecvItem, RecvEnd, CloseOutput, CloseSend, SendEnd
  <1>4. ASSUME NEW a \in Finishers, Finish(a)
        PROVE  (UNCHANGED out \/ FinishSend(a)) /\ UNCHANGED lost
    BY <1>4 DEF Finish, FinishSwap, FinishSend, FinishCleanup
  <1>5. ASSUME NEW s \in Senders, SendBegins(s) \/ SendUnfit(s) \/ SendSteps(s)
        PROVE  (UNCHANGED out \/ SendItem(s)) /\ UNCHANGED lost
    BY <1>5 DEF SendBegins, SendUnfit, SendSteps, SendAcquires, SendFails, SendLocks, SendItem
  <1>6. CASE UNCHANGED vars
    BY <1>6 DEF vars
  <1> QED BY <1>1, <1>2, <1>3, <1>4, <1>5, <1>6 DEF Next

-------------------------------------------------------------------------------
(* The end of the call.                                                    *)

LEMMA FinishStep ==
  ASSUME Types, FinishInv, [Next]_vars
  PROVE  FinishInv'
  <1> USE DEF One
  <1>0. fin \in [Finishers -> {"no", "cas", "send", "cleanup", "done"}] /\ present \in BOOLEAN
    BY DEF Types
  <1>1. ASSUME NEW a \in Finishers, FinishSwap(a) PROVE FinishInv'
    <2>1. UNCHANGED <<pc, present, inflight>>
      BY <1>1 DEF FinishSwap
    <2>2. CASE terminal
      <3>1. terminal' = terminal /\ fin' = [fin EXCEPT ![a] = "done"]
        BY <1>1, <2>2 DEF FinishSwap, FirstToFinish
      <3> QED BY <1>0, <1>1, <2>1, <2>2, <3>1 DEF FinishInv, FinishSwap, Finishers
    <2>3. CASE ~terminal
      <3>1. terminal' /\ fin' = [fin EXCEPT ![a] = "send"]
        BY <1>1, <2>3 DEF FinishSwap, FirstToFinish
      <3>2. present /\ \A b \in Finishers : fin[b] \notin {"send", "cleanup"}
        BY <2>3 DEF FinishInv
      <3> QED BY <1>0, <1>1, <2>1, <3>1, <3>2 DEF FinishInv, FinishSwap, Finishers
    <2> QED BY <2>2, <2>3
  <1>2. ASSUME NEW a \in Finishers, FinishSend(a) PROVE FinishInv'
    BY <1>0, <1>2 DEF FinishInv, FinishSend, Finishers
  <1>3. ASSUME NEW a \in Finishers, FinishCleanup(a) PROVE FinishInv'
    <2>1. /\ UNCHANGED <<pc, terminal>> /\ present' = FALSE /\ inflight' = inflight - 1
          /\ fin' = [fin EXCEPT ![a] = "done"] /\ fin[a] = "cleanup"
      BY <1>3 DEF FinishCleanup
    <2>2. terminal /\ inflight = 1 /\ \A b \in Finishers \ {a} : fin[b] \notin {"send", "cleanup"}
      BY <2>1 DEF FinishInv
    <2> QED BY <1>0, <2>1, <2>2 DEF FinishInv, Finishers
  <1>4. CASE IdleFires
    BY <1>0, <1>4 DEF FinishInv, IdleFires, Finishers
  <1>5. ASSUME NEW e, fin["reader"] \in {"no", "done"}, ReaderAborts(e) PROVE FinishInv'
    BY <1>0, <1>5 DEF FinishInv, ReaderAborts, Finishers
  <1>6. CASE ComesToFinish
    BY <1>0, <1>6 DEF FinishInv, ComesToFinish, Finishers
  <1>7. CASE NoFinish
    <2>1. present' = present /\ inflight' = inflight /\ fin' = fin /\ terminal' = terminal
      BY <1>7 DEF NoFinish
    <2>2. pc' # "finish" => pc # "finish"
      BY <1>7 DEF NoFinish
    <2> QED BY <2>1, <2>2 DEF FinishInv
  <1> QED BY <1>1, <1>2, <1>3, <1>4, <1>5, <1>6, <1>7, FinishKinds DEF Finish

\* A frame at the end of what was sent.
AnyFrame == [kind : {"item", "end", "result", "error"}, seq : Nat]

LEMMA Emitted ==
  ASSUME out \in Seq(AnyFrame), NEW f \in AnyFrame, Emit(f)
  PROVE  /\ out' \in Seq(AnyFrame)
         /\ \/ lost /\ out' = out
            \/ /\ ~lost /\ DOMAIN out = 1..Len(out) /\ DOMAIN out' = 1..Len(out) + 1
               /\ Len(out) \in Nat
               /\ \A i \in 1..Len(out) : out'[i] = out[i]
               /\ out'[Len(out) + 1] = f
  <1>1. CASE lost
    BY <1>1 DEF Emit
  <1>2. CASE ~lost
    <2>1. out' = Append(out, f)
      BY <1>2 DEF Emit
    <2>2. /\ out' \in Seq(AnyFrame) /\ Len(out') = Len(out) + 1
          /\ \A i \in 1..Len(out) : out'[i] = out[i]
          /\ out'[Len(out) + 1] = f
      BY <2>1, AppendProperties
    <2>3. DOMAIN out = 1..Len(out) /\ Len(out) \in Nat /\ DOMAIN out' = 1..Len(out')
      BY <2>2, LenProperties
    <2> QED BY <1>2, <2>2, <2>3
  <1> QED BY <1>1, <1>2

LEMMA FrameTypes ==
  ASSUME NEW n \in Nat
  PROVE  /\ \A k \in {"item", "end", "result", "error"} :
              Frame(k, n) \in AnyFrame /\ Frame(k, n).kind = k /\ Frame(k, n).seq = n
         /\ 0 \in Nat
  BY DEF Frame, AnyFrame

\* Which frame each of the four sends.
LEMMA WhatIsSent ==
  ASSUME Types
  PROVE  /\ \A a \in Finishers : FinishSend(a) => \E k \in {"result", "error"} : Emit(Frame(k, 0))
         /\ \A s \in Senders : SendItem(s) => Emit(Frame("item", outputSequence))
         /\ CloseSend \/ SendEnd => Emit(Frame("end", 0))
  <1>1. answer \in {"result", "error"}
    BY DEF Types
  <1> QED BY <1>1 DEF FinishSend, SendItem, CloseSend, SendEnd

\* A frame that is not terminal leaves the terminals alone; one that is adds one.
LEMMA TerminalsStep ==
  ASSUME out \in Seq(AnyFrame), NEW f \in AnyFrame, Emit(f)
  PROVE  /\ lost \/ f.kind \notin {"result", "error"} => Terminals' = Terminals
         /\ ~lost /\ f.kind \in {"result", "error"} =>
              Terminals' = Terminals \cup {Len(out) + 1}
  <1>1. CASE lost
    BY <1>1, Emitted DEF Terminals
  <1>2. CASE ~lost
    <2>1. /\ DOMAIN out = 1..Len(out) /\ DOMAIN out' = 1..Len(out) + 1 /\ Len(out) \in Nat
          /\ \A i \in 1..Len(out) : out'[i] = out[i]
          /\ out'[Len(out) + 1] = f
      BY <1>2, Emitted
    <2>2. 1..Len(out) + 1 = (1..Len(out)) \cup {Len(out) + 1}
      BY <2>1
    <2> QED BY <1>2, <2>1, <2>2 DEF Terminals
  <1> QED BY <1>1, <1>2

LEMMA TerminalStep ==
  ASSUME Types, FinishInv, TerminalInv, out \in Seq(AnyFrame), [Next]_vars
  PROVE  TerminalInv'
  <1>0. fin \in [Finishers -> {"no", "cas", "send", "cleanup", "done"}] /\ present \in BOOLEAN
    BY DEF Types
  <1>1. ASSUME NEW a \in Finishers, FinishSend(a) PROVE TerminalInv'
    <2>1. PICK k \in {"result", "error"} : Emit(Frame(k, 0))
      BY <1>1, WhatIsSent
    <2>2. Frame(k, 0) \in AnyFrame /\ Frame(k, 0).kind \in {"result", "error"}
      BY <2>1, FrameTypes
    <2>3. /\ lost => Terminals' = Terminals
          /\ ~lost => Terminals' = Terminals \cup {Len(out) + 1}
      BY <2>1, <2>2, TerminalsStep
    <2>4. /\ fin[a] = "send" /\ fin' = [fin EXCEPT ![a] = "cleanup"]
          /\ UNCHANGED <<lost, present, terminal>>
      BY <1>1 DEF FinishSend
    <2>5. Terminals = {} /\ terminal /\ present
      BY <2>4 DEF TerminalInv, FinishInv
    <2>6. \A b \in Finishers : fin'[b] # "send"
      BY <1>0, <2>4 DEF FinishInv
    <2> QED BY <2>3, <2>4, <2>5, <2>6 DEF TerminalInv
  <1>2. ASSUME ~\E a \in Finishers : FinishSend(a)
        PROVE  Terminals' = Terminals /\ (lost => lost')
    <2>1. CASE UNCHANGED out
      <3>1. Terminals' = Terminals
        BY <2>1 DEF Terminals
      <3>2. lost' = lost \/ lost' = TRUE
        BY OutKinds DEF ConnectionLost
      <3> QED BY <3>1, <3>2 DEF Types
    <2>2. ASSUME NEW s \in Senders, SendItem(s) PROVE Terminals' = Terminals /\ (lost => lost')
      <3>1. Emit(Frame("item", outputSequence)) /\ UNCHANGED lost
        BY <2>2 DEF SendItem
      <3>2. Frame("item", outputSequence) \in AnyFrame /\ Frame("item", outputSequence).kind = "item"
        BY FrameTypes DEF Types
      <3> QED BY <3>1, <3>2, TerminalsStep
    <2>3. ASSUME CloseSend \/ SendEnd PROVE Terminals' = Terminals /\ (lost => lost')
      <3>1. Emit(Frame("end", 0)) /\ UNCHANGED lost
        BY <2>3 DEF CloseSend, SendEnd
      <3>2. Frame("end", 0) \in AnyFrame /\ Frame("end", 0).kind = "end"
        BY FrameTypes
      <3> QED BY <3>1, <3>2, TerminalsStep
    <2> QED BY <1>2, <2>1, <2>2, <2>3, OutKinds
  <1>3. ASSUME NEW a \in Finishers, FinishSwap(a) PROVE TerminalInv'
    <2>0. UNCHANGED <<out, lost, present>>
      BY <1>3 DEF FinishSwap, wires
    <2>1. CASE terminal
      <3>1. terminal' = terminal /\ fin' = [fin EXCEPT ![a] = "done"]
        BY <1>3, <2>1 DEF FinishSwap, FirstToFinish
      <3> QED BY <1>0, <2>0, <3>1 DEF TerminalInv, Terminals
    <2>2. CASE ~terminal
      <3>1. terminal' /\ fin' = [fin EXCEPT ![a] = "send"]
        BY <1>3, <2>2 DEF FinishSwap, FirstToFinish
      <3>2. Terminals = {} /\ Terminals' = Terminals
        BY <2>0, <2>2 DEF TerminalInv, Terminals
      <3>3. present /\ \A b \in Finishers : fin[b] \notin {"send", "cleanup"}
        BY <2>2 DEF FinishInv
      <3> QED BY <1>0, <2>0, <3>1, <3>2, <3>3 DEF TerminalInv
    <2> QED BY <2>1, <2>2
  <1>4. ASSUME NEW a \in Finishers, FinishCleanup(a) PROVE TerminalInv'
    <2>1. /\ UNCHANGED <<out, lost, terminal>> /\ present' = FALSE
          /\ fin' = [fin EXCEPT ![a] = "done"] /\ fin[a] = "cleanup"
      BY <1>4 DEF FinishCleanup, wires
    <2>2. Terminals' = Terminals /\ terminal /\ (~lost => Terminals # {})
      BY <2>1 DEF TerminalInv, FinishInv, Terminals
    <2> QED BY <1>0, <2>1, <2>2 DEF TerminalInv
  <1>5. ASSUME ~\E a \in Finishers : FinishSend(a),
               UNCHANGED <<present, terminal>>, fin' \in [Finishers -> {"no", "cas", "send", "cleanup", "done"}],
               \A b \in Finishers : fin'[b] \in {"send", "cleanup"} => fin'[b] = fin[b]
        PROVE  TerminalInv'
    <2>1. Terminals' = Terminals /\ (lost => lost')
      BY <1>2, <1>5
    <2> QED BY <1>5, <2>1 DEF TerminalInv
  <1>6. CASE IdleFires \/ ComesToFinish \/ NoFinish \/ \E e \in {"cancelled", "protocol"} : ReaderAborts(e)
    <2>1. CASE \E a \in Finishers : FinishSend(a)
      BY <1>1, <2>1
    <2>2. CASE ~\E a \in Finishers : FinishSend(a)
      <3>1. UNCHANGED <<present, terminal>>
        BY <1>6 DEF IdleFires, ComesToFinish, NoFinish, ReaderAborts
      <3>2. \A b \in Finishers : fin'[b] \in {"send", "cleanup"} => fin'[b] = fin[b]
        BY <1>0, <1>6 DEF IdleFires, ComesToFinish, NoFinish, ReaderAborts
      <3>3. fin' \in [Finishers -> {"no", "cas", "send", "cleanup", "done"}]
        BY <1>0, <1>6 DEF IdleFires, ComesToFinish, NoFinish, ReaderAborts
      <3> QED BY <1>5, <2>2, <3>1, <3>2, <3>3
    <2> QED BY <2>1, <2>2
  <1> QED BY <1>1, <1>3, <1>4, <1>6, FinishKinds DEF Finish

-------------------------------------------------------------------------------
(* The output.                                                             *)

\* Neither the senders nor the output lock are involved.
NoOutput ==
  /\ UNCHANGED <<sp, outputMu, outputSequence, outputClosed>>
  /\ pc = "closed" <=> pc' = "closed"

LEMMA OutputKinds ==
  ASSUME [Next]_vars
  PROVE  \/ \E s \in Senders : SendBegins(s) \/ SendUnfit(s) \/ SendSteps(s)
         \/ CloseOutput \/ SendEnd \/ CloseSend
         \/ NoOutput
  <1> USE DEF caller, wires, life, inp, outp, NoOutput
  <1>1. CASE CallerSteps \/ ConnectionLost \/ DeadlinePasses \/ IdleFires
    BY <1>1 DEF CallerSteps, CallerItem, CallerEnd, CallerCancel, CallerGrants, CallerSeesWindow,
                ConnectionLost, DeadlinePasses, IdleFires
  <1>2. CASE ReadStep
    BY <1>2 DEF ReadStep, ReadFrame, ReadStray, ReadWindow, ReadCancel, ReadItem, ReadWrong,
                ReaderAborts, ReadEnd, ReadArm, ReadPush, ReadLost
  <1>3. CASE Start \/ Grant \/ RecvAllows \/ RecvWindow \/ RecvItem \/ RecvEnd
    BY <1>3 DEF Start, Grant, RecvAllows, RecvWindow, RecvItem, RecvEnd
  <1>4. ASSUME NEW e, Return(e), pc = "handler" PROVE NoOutput
    BY <1>4 DEF Return
  <1>5. ASSUME NEW a \in Finishers, Finish(a) PROVE NoOutput
    BY <1>5 DEF Finish, FinishSwap, FinishSend, FinishCleanup
  <1>6. CASE UNCHANGED vars
    BY <1>6 DEF vars
  <1> QED BY <1>1, <1>2, <1>3, <1>4, <1>5, <1>6
          DEF Next, RunSteps, HandlerSteps, HandlerStops, HandlerReturns

LEMMA LockStep ==
  ASSUME Types, HandlerAssumption, LockInv, [Next]_vars
  PROVE  LockInv'
  <1>0. /\ sp \in [Senders -> {"none", "acquire", "lock", "send"}]
        /\ "free" \notin Senders /\ "run" \notin Senders
    BY DEF Types, HandlerAssumption
  <1>1. ASSUME NEW s \in Senders, SendBegins(s) PROVE LockInv'
    BY <1>0, <1>1 DEF LockInv, SendBegins
  <1>2. ASSUME NEW s \in Senders, SendUnfit(s) PROVE LockInv'
    <2>1. UNCHANGED <<pc, outputClosed>> /\ sp' = [sp EXCEPT ![s] = "none"]
      BY <1>2 DEF SendUnfit
    <2>2. CASE sp[s] = "send"
      BY <1>0, <1>2, <2>1, <2>2 DEF LockInv, SendUnfit
    <2>3. CASE sp[s] # "send"
      <3>1. outputMu' = outputMu
        BY <1>2, <2>3 DEF SendUnfit
      <3> QED BY <1>0, <2>1, <2>3, <3>1 DEF LockInv
    <2> QED BY <2>2, <2>3
  <1>3. ASSUME NEW s \in Senders, SendAcquires(s) PROVE LockInv'
    BY <1>0, <1>3 DEF LockInv, SendAcquires
  <1>4. ASSUME NEW s \in Senders, SendFails(s) PROVE LockInv'
    BY <1>0, <1>4 DEF LockInv, SendFails
  <1>5. ASSUME NEW s \in Senders, SendLocks(s) PROVE LockInv'
    BY <1>0, <1>5 DEF LockInv, SendLocks, LockFree
  <1>6. ASSUME NEW s \in Senders, SendItem(s) PROVE LockInv'
    BY <1>0, <1>6 DEF LockInv, SendItem
  <1>7. CASE CloseOutput
    <2>1. UNCHANGED sp /\ outputMu = "free" /\ pc = "closing"
      BY <1>7 DEF CloseOutput
    <2>2. CASE outputClosed \/ terminal
      BY <1>0, <1>7, <2>1, <2>2 DEF LockInv, CloseOutput
    <2>3. CASE ~(outputClosed \/ terminal)
      <3>1. pc' = "closed" /\ outputMu' = "run" /\ outputClosed'
        BY <1>7, <2>3 DEF CloseOutput
      <3>2. \A s \in Senders : sp[s] # "send"
        BY <1>0, <2>1 DEF LockInv
      <3> QED BY <1>0, <2>1, <3>1, <3>2 DEF LockInv
    <2> QED BY <2>2, <2>3
  <1>8. CASE SendEnd
    <2>1. UNCHANGED <<sp, outputClosed>> /\ pc = "closed" /\ pc' = "finish" /\ outputMu' = "free"
      BY <1>8 DEF SendEnd
    <2> QED BY <1>0, <2>1 DEF LockInv
  <1>9. CASE CloseSend
    <2>1. UNCHANGED <<sp, pc, outputMu>> /\ pc = "handler" /\ outputMu = "free" /\ outputClosed'
      BY <1>9 DEF CloseSend
    <2> QED BY <1>0, <2>1 DEF LockInv
  <1>10. CASE NoOutput
    <2>1. sp' = sp /\ outputMu' = outputMu /\ outputClosed' = outputClosed
      BY <1>10 DEF NoOutput
    <2>2. pc = "closed" <=> pc' = "closed"
      BY <1>10 DEF NoOutput
    <2> QED BY <2>1, <2>2 DEF LockInv
  <1> QED BY <1>1, <1>2, <1>3, <1>4, <1>5, <1>6, <1>7, <1>8, <1>9, <1>10, OutputKinds
          DEF SendSteps

\* The clauses of OutInv for one frame, and for two.
Numbered(o, n, c) ==
  /\ o.kind = "item" => o.seq < n
  /\ o.kind = "end" => c
  /\ o.kind # "item" => o.seq = 0
Ordered(o, p) ==
  p.kind = "item" => o.kind # "end" /\ (o.kind = "item" => o.seq < p.seq)

LEMMA OutInvSays ==
  OutInv <=> /\ out \in Seq(AnyFrame)
             /\ \A i \in DOMAIN out : Numbered(out[i], outputSequence, outputClosed)
             /\ \A i, j \in DOMAIN out : i < j => Ordered(out[i], out[j])
  BY DEF OutInv, OutputInOrder, Numbered, Ordered, AnyFrame

\* A frame goes out that fits what is there.
LEMMA FrameFits ==
  ASSUME OutInv, outputSequence \in Nat, NEW f \in AnyFrame, Emit(f),
         outputSequence' \in Nat, outputSequence <= outputSequence',
         outputClosed => outputClosed',
         Numbered(f, outputSequence', outputClosed'),
         f.kind = "item" => f.seq = outputSequence /\ ~outputClosed
  PROVE  OutInv'
  <1>0. /\ out \in Seq(AnyFrame)
        /\ \A i \in DOMAIN out : Numbered(out[i], outputSequence, outputClosed)
        /\ \A i, j \in DOMAIN out : i < j => Ordered(out[i], out[j])
    BY OutInvSays
  <1>1. \A i \in DOMAIN out : out[i] \in AnyFrame
    BY <1>0, ElementOfSeq, LenProperties
  <1>2. \A i \in DOMAIN out : out[i].seq \in Nat
    BY <1>1 DEF AnyFrame
  <1>3. \A i \in DOMAIN out : Numbered(out[i], outputSequence', outputClosed')
    BY <1>0, <1>2 DEF Numbered
  <1>4. \A i \in DOMAIN out : Ordered(out[i], f)
    BY <1>0 DEF Numbered, Ordered
  <1>5. out' \in Seq(AnyFrame)
    BY <1>0, Emitted
  <1>6. CASE lost
    <2>1. out' = out
      BY <1>0, <1>6, Emitted
    <2> QED BY <1>0, <1>3, <2>1 DEF OutInv, OutputInOrder, Numbered, Ordered, AnyFrame
  <1>7. CASE ~lost
    <2>1. /\ DOMAIN out = 1..Len(out) /\ DOMAIN out' = 1..Len(out) + 1 /\ Len(out) \in Nat
          /\ \A i \in 1..Len(out) : out'[i] = out[i]
          /\ out'[Len(out) + 1] = f
      BY <1>0, <1>7, Emitted
    <2>2. \A i \in DOMAIN out' : i \in DOMAIN out \/ i = Len(out) + 1
      BY <2>1
    <2>3. \A i \in DOMAIN out' : Numbered(out'[i], outputSequence', outputClosed')
      BY <1>3, <2>1, <2>2
    <2>4. ASSUME NEW i \in DOMAIN out', NEW j \in DOMAIN out', i < j
          PROVE  Ordered(out'[i], out'[j])
      <3>1. i \in DOMAIN out
        BY <2>1, <2>4
      <3>2. CASE j \in DOMAIN out
        BY <1>0, <2>1, <2>4, <3>1, <3>2
      <3>3. CASE j = Len(out) + 1
        BY <1>4, <2>1, <3>1, <3>3
      <3> QED BY <2>2, <3>2, <3>3
    <2> QED BY <1>5, <2>3, <2>4 DEF OutInv, OutputInOrder, Numbered, Ordered, AnyFrame
  <1> QED BY <1>6, <1>7

LEMMA OutStep ==
  ASSUME Types, LockInv, OutInv, [Next]_vars
  PROVE  OutInv'
  <1>0. /\ sp \in [Senders -> {"none", "acquire", "lock", "send"}] /\ outputSequence \in Nat
        /\ outputClosed \in BOOLEAN
    BY DEF Types
  <1>1. ASSUME NEW s \in Senders, SendItem(s) PROVE OutInv'
    <2>1. /\ Emit(Frame("item", outputSequence)) /\ outputSequence' = outputSequence + 1
          /\ UNCHANGED outputClosed /\ sp[s] = "send"
      BY <1>1 DEF SendItem
    <2>2. /\ Frame("item", outputSequence) \in AnyFrame
          /\ Frame("item", outputSequence).kind = "item" /\ Frame("item", outputSequence).seq = outputSequence
      BY <1>0, FrameTypes
    <2>3. ~outputClosed
      BY <2>1 DEF LockInv
    <2>4. outputSequence' \in Nat /\ outputSequence <= outputSequence' /\ outputSequence < outputSequence'
      BY <1>0, <2>1
    <2>5. Numbered(Frame("item", outputSequence), outputSequence', outputClosed')
      BY <2>2, <2>4 DEF Numbered
    <2> QED BY <1>0, <2>1, <2>2, <2>3, <2>4, <2>5, FrameFits
  <1>2. CASE CloseSend \/ SendEnd
    <2>1. Emit(Frame("end", 0)) /\ outputSequence' = outputSequence
      BY <1>2 DEF CloseSend, SendEnd
    <2>2. outputClosed'
      <3>1. CASE CloseSend
        BY <3>1 DEF CloseSend
      <3>2. CASE SendEnd
        BY <1>0, <3>2 DEF SendEnd, LockInv
      <3> QED BY <1>2, <3>1, <3>2
    <2>3. Frame("end", 0) \in AnyFrame /\ Frame("end", 0).kind = "end" /\ Frame("end", 0).seq = 0
      BY FrameTypes
    <2>4. Numbered(Frame("end", 0), outputSequence', outputClosed')
      BY <2>2, <2>3 DEF Numbered
    <2>5. /\ outputSequence' \in Nat /\ outputSequence <= outputSequence'
          /\ outputClosed => outputClosed'
      BY <1>0, <2>1, <2>2
    <2>6. Frame("end", 0).kind # "item"
      BY <2>3
    <2> QED BY <1>0, <2>1, <2>3, <2>4, <2>5, <2>6, FrameFits
  <1>3. ASSUME NEW a \in Finishers, FinishSend(a) PROVE OutInv'
    <2>1. PICK k \in {"result", "error"} : Emit(Frame(k, 0))
      BY <1>3, WhatIsSent
    <2>2. Frame(k, 0) \in AnyFrame /\ Frame(k, 0).kind = k /\ Frame(k, 0).seq = 0
      BY <2>1, FrameTypes
    <2>3. UNCHANGED <<outputSequence, outputClosed>>
      BY <1>3 DEF FinishSend, outp
    <2>4. Numbered(Frame(k, 0), outputSequence', outputClosed')
      BY <2>1, <2>2 DEF Numbered
    <2> QED BY <1>0, <2>1, <2>2, <2>3, <2>4, FrameFits
  <1>4. CASE UNCHANGED out
    <2>1. /\ outputSequence' \in Nat /\ outputSequence <= outputSequence'
          /\ outputClosed => outputClosed'
      <3>1. outputSequence' = outputSequence \/ outputSequence' = outputSequence + 1
        BY OutputKinds DEF SendBegins, SendUnfit, SendSteps, SendAcquires, SendFails, SendLocks, SendItem,
                           CloseOutput, SendEnd, CloseSend, NoOutput
      <3>2. outputClosed' = outputClosed \/ outputClosed' = TRUE
        BY OutputKinds DEF SendBegins, SendUnfit, SendSteps, SendAcquires, SendFails, SendLocks, SendItem,
                           CloseOutput, SendEnd, CloseSend, NoOutput
      <3> QED BY <1>0, <3>1, <3>2
    <2>2. /\ out \in Seq(AnyFrame)
          /\ \A i \in DOMAIN out : Numbered(out[i], outputSequence, outputClosed)
          /\ \A i, j \in DOMAIN out : i < j => Ordered(out[i], out[j])
      BY OutInvSays
    <2>3. \A i \in DOMAIN out : out[i] \in AnyFrame
      BY <2>2, ElementOfSeq, LenProperties
    <2>4. \A i \in DOMAIN out : out[i].seq \in Nat
      BY <2>3 DEF AnyFrame
    <2>5. \A i \in DOMAIN out : Numbered(out[i], outputSequence', outputClosed')
      BY <1>0, <2>1, <2>2, <2>4 DEF Numbered
    <2> QED BY <1>4, <2>2, <2>5 DEF OutInv, OutputInOrder, Numbered, Ordered, AnyFrame
  <1> QED BY <1>1, <1>2, <1>3, <1>4, OutKinds

-------------------------------------------------------------------------------
(* Credit.                                                                 *)

LEMMA InCounts ==
  ASSUME in \in Seq(Symbols)
  PROVE  \A x \in Symbols : Count(in, x) \in Nat
  BY CountType

LEMMA PutCounts ==
  ASSUME in \in Seq(Symbols), NEW f \in Symbols, Put(f)
  PROVE  \A x \in Symbols : Count(in', x) = IF f = x THEN Count(in, x) + 1 ELSE Count(in, x)
  BY CountAppend DEF Put

LEMMA TakeCounts ==
  ASSUME in \in Seq(Symbols), in # <<>>, in' = Tail(in)
  PROVE  /\ \A x \in Symbols : Count(in, x) = IF Head(in) = x THEN Count(in', x) + 1 ELSE Count(in', x)
         /\ \A x \in Symbols : Count(in', x) \in Nat /\ Count(in', x) <= Count(in, x)
  <1>1. \A x \in Symbols : Count(in, x) = IF Head(in) = x THEN Count(in', x) + 1 ELSE Count(in', x)
    BY CountTail
  <1>2. in' \in Seq(Symbols)
    BY InTypes
  <1>3. \A x \in Symbols : Count(in', x) \in Nat
    BY <1>2, CountType
  <1> QED BY <1>1, <1>3

LEMMA CreditKinds ==
  ASSUME [Next]_vars
  PROVE  \/ \E s \in Senders : SendBegins(s) \/ SendUnfit(s) \/ SendSteps(s)
         \/ CallerItem \/ CallerEnd \/ CallerCancel \/ CallerGrants
         \/ ConnectionLost \/ ReadFrame
         \/ UNCHANGED <<in, granted, credit, sp, outputSequence>>
  <1> USE DEF caller, wires, life, inp, outp
  <1>1. CASE CallerSeesWindow \/ DeadlinePasses \/ IdleFires
    BY <1>1 DEF CallerSeesWindow, DeadlinePasses, IdleFires
  <1>2. CASE ReadArm \/ ReadPush \/ ReadLost
    BY <1>2 DEF ReadArm, ReadPush, ReadLost
  <1>3. CASE Start \/ Grant \/ RecvAllows \/ RecvWindow \/ RecvItem \/ RecvEnd
    BY <1>3 DEF Start, Grant, RecvAllows, RecvWindow, RecvItem, RecvEnd
  <1>4. ASSUME NEW e, Return(e) PROVE UNCHANGED <<in, granted, credit, sp, outputSequence>>
    BY <1>4 DEF Return
  <1>5. ASSUME NEW a \in Finishers, Finish(a) PROVE UNCHANGED <<in, granted, credit, sp, outputSequence>>
    BY <1>5 DEF Finish, FinishSwap, FinishSend, FinishCleanup
  <1>6. CASE CloseOutput \/ SendEnd \/ CloseSend
    BY <1>6 DEF CloseOutput, SendEnd, CloseSend
  <1>7. CASE UNCHANGED vars
    BY <1>7 DEF vars
  <1> QED BY <1>1, <1>2, <1>3, <1>4, <1>5, <1>6, <1>7
          DEF Next, CallerSteps, ReadStep, RunSteps, HandlerSteps, HandlerStops, HandlerReturns

\* What one sender does to the credit taken and not yet used.
LEMMA TakenStep ==
  ASSUME Types, HandlerAssumption, NEW s \in Senders, NEW x \in {"none", "acquire", "lock", "send"},
         sp' = [sp EXCEPT ![s] = x]
  PROVE  /\ Cardinality(Taken) \in Nat
         /\ x \in {"lock", "send"} =>
              Cardinality(Taken') = IF sp[s] \in {"lock", "send"} THEN Cardinality(Taken)
                                    ELSE Cardinality(Taken) + 1
         /\ x \notin {"lock", "send"} =>
              Cardinality(Taken') = IF sp[s] \in {"lock", "send"} THEN Cardinality(Taken) - 1
                                    ELSE Cardinality(Taken)
  <1>0. sp \in [Senders -> {"none", "acquire", "lock", "send"}] /\ IsFiniteSet(Senders)
    BY DEF Types, HandlerAssumption
  <1>1. Taken \subseteq Senders
    BY DEF Taken
  <1>2. IsFiniteSet(Taken)
    BY <1>0, <1>1, FS_Subset
  <1>3. Cardinality(Taken) \in Nat
    BY <1>2, FS_CardinalityType
  <1>4. s \in Taken <=> sp[s] \in {"lock", "send"}
    BY DEF Taken
  <1>5. CASE x \in {"lock", "send"}
    <2>1. Taken' = Taken \cup {s}
      BY <1>0, <1>5 DEF Taken
    <2> QED BY <1>2, <1>3, <1>4, <1>5, <2>1, FS_AddElement
  <1>6. CASE x \notin {"lock", "send"}
    <2>1. Taken' = Taken \ {s}
      BY <1>0, <1>6 DEF Taken
    <2> QED BY <1>2, <1>3, <1>4, <1>6, <2>1, FS_RemoveElement
  <1> QED BY <1>5, <1>6

Owed == credit + Count(in, "window") + Cardinality(Taken) + outputSequence

LEMMA OwedStep ==
  ASSUME Types, HandlerAssumption, Owed <= granted, [Next]_vars
  PROVE  Owed' <= granted'
  <1>0. /\ credit \in Nat /\ outputSequence \in Nat /\ granted \in Nat
        /\ in \in Seq(Symbols) /\ sp \in [Senders -> {"none", "acquire", "lock", "send"}]
    BY DEF Types, Symbols, HandlerAssumption
  <1>1. Count(in, "window") \in Nat /\ "window" \in Symbols
    BY <1>0, InCounts DEF Symbols
  <1>2. Cardinality(Taken) \in Nat
    <2>1. Taken \subseteq Senders /\ IsFiniteSet(Senders)
      BY DEF Taken, HandlerAssumption
    <2> QED BY <2>1, FS_Subset, FS_CardinalityType
  <1>n. /\ credit \in Nat /\ Count(in, "window") \in Nat /\ Cardinality(Taken) \in Nat
        /\ outputSequence \in Nat /\ granted \in Nat
        /\ credit + Count(in, "window") + Cardinality(Taken) + outputSequence <= granted
    BY <1>0, <1>1, <1>2 DEF Owed
  <1>3. ASSUME NEW s \in Senders, SendBegins(s) \/ SendUnfit(s) \/ SendSteps(s) PROVE Owed' <= granted'
    <2>0. UNCHANGED <<in, granted>>
      BY <1>3 DEF SendBegins, SendUnfit, SendSteps, SendAcquires, SendFails, SendLocks, SendItem,
                  caller, wires
    <2>1. CASE SendBegins(s)
      <3>1. /\ sp[s] = "none" /\ sp' = [sp EXCEPT ![s] = "acquire"]
            /\ UNCHANGED <<credit, outputSequence>>
        BY <2>1 DEF SendBegins
      <3>2. Cardinality(Taken') = Cardinality(Taken)
        BY <3>1, TakenStep
      <3> QED BY <2>0, <3>1, <3>2 DEF Owed
    <2>2. CASE SendUnfit(s)
      <3>1. sp[s] \in {"acquire", "send"} /\ sp' = [sp EXCEPT ![s] = "none"] /\ UNCHANGED credit
        BY <2>2 DEF SendUnfit
      <3>2. CASE sp[s] = "send"
        <4>1. Cardinality(Taken') = Cardinality(Taken) - 1
          BY <3>1, <3>2, TakenStep
        <4>2. outputSequence' = outputSequence + 1
          BY <2>2, <3>2 DEF SendUnfit
        <4>3. credit' = credit /\ in' = in /\ granted' = granted
          BY <2>0, <3>1
        <4>4. credit' + Count(in', "window") + Cardinality(Taken') + outputSequence' <= granted'
          BY <1>n, <4>1, <4>2, <4>3
        <4> QED BY <4>4 DEF Owed
      <3>3. CASE sp[s] = "acquire"
        <4>1. Cardinality(Taken') = Cardinality(Taken)
          BY <3>1, <3>3, TakenStep
        <4>2. outputSequence' = outputSequence
          BY <2>2, <3>3 DEF SendUnfit
        <4> QED BY <2>0, <3>1, <4>1, <4>2 DEF Owed
      <3> QED BY <3>1, <3>2, <3>3
    <2>3. CASE SendAcquires(s)
      <3>1. /\ sp[s] = "acquire" /\ sp' = [sp EXCEPT ![s] = "lock"] /\ UNCHANGED outputSequence
            /\ credit' = credit - 1
        BY <1>0, <2>3 DEF SendAcquires, HasCredit
      <3>2. Cardinality(Taken') = Cardinality(Taken) + 1
        BY <3>1, TakenStep
      <3>3. /\ credit' = credit - 1 /\ outputSequence' = outputSequence
            /\ in' = in /\ granted' = granted
        BY <2>0, <3>1
      <3>4. credit' + Count(in', "window") + Cardinality(Taken') + outputSequence' <= granted'
        BY <1>n, <3>2, <3>3
      <3> QED BY <3>4 DEF Owed
    <2>4. CASE SendFails(s)
      <3>1. sp' = [sp EXCEPT ![s] = "none"] /\ UNCHANGED <<credit, outputSequence>>
        BY <2>4 DEF SendFails
      <3>2. Cardinality(Taken') \in {Cardinality(Taken), Cardinality(Taken) - 1}
        BY <3>1, TakenStep
      <3>3. /\ credit' = credit /\ outputSequence' = outputSequence
            /\ in' = in /\ granted' = granted
        BY <2>0, <3>1
      <3>4. credit' + Count(in', "window") + Cardinality(Taken') + outputSequence' <= granted'
        BY <1>n, <3>2, <3>3
      <3> QED BY <3>4 DEF Owed
    <2>5. CASE SendLocks(s)
      <3>1. /\ sp[s] = "lock" /\ sp' = [sp EXCEPT ![s] = "send"]
            /\ UNCHANGED <<credit, outputSequence>>
        BY <2>5 DEF SendLocks
      <3>2. Cardinality(Taken') = Cardinality(Taken)
        BY <3>1, TakenStep
      <3> QED BY <2>0, <3>1, <3>2 DEF Owed
    <2>6. CASE SendItem(s)
      <3>1. /\ sp[s] = "send" /\ sp' = [sp EXCEPT ![s] = "none"]
            /\ credit' = credit /\ outputSequence' = outputSequence + 1
        BY <2>6 DEF SendItem
      <3>2. Cardinality(Taken') = Cardinality(Taken) - 1
        BY <3>1, TakenStep
      <3>3. /\ credit' = credit /\ outputSequence' = outputSequence + 1
            /\ in' = in /\ granted' = granted
        BY <2>0, <3>1
      <3>4. credit' + Count(in', "window") + Cardinality(Taken') + outputSequence' <= granted'
        BY <1>n, <3>2, <3>3
      <3> QED BY <3>4 DEF Owed
    <2> QED BY <1>3, <2>1, <2>2, <2>3, <2>4, <2>5, <2>6 DEF SendSteps
  <1>4. ASSUME CallerItem \/ CallerEnd \/ CallerCancel \/ CallerGrants \/ ConnectionLost \/ ReadFrame
        PROVE  Taken' = Taken /\ outputSequence' = outputSequence
    <2>1. UNCHANGED <<sp, outputSequence>>
      BY <1>4 DEF CallerItem, CallerEnd, CallerCancel, CallerGrants, ConnectionLost,
                  ReadFrame, ReadStray, ReadWindow, ReadCancel, ReadItem, ReadWrong,
                  ReaderAborts, ReadEnd, outp
    <2> QED BY <2>1 DEF Taken
  <1>5. CASE CallerItem \/ CallerEnd \/ CallerCancel
    <2>1. PICK f \in {"item", "end", "cancel"} : Put(f)
      BY <1>5 DEF CallerItem, CallerEnd, CallerCancel
    <2>2. credit' = credit /\ granted' = granted
      BY <1>5 DEF CallerItem, CallerEnd, CallerCancel, outp
    <2>3. Count(in', "window") = Count(in, "window")
      BY <1>0, <1>1, <2>1, PutCounts DEF Symbols
    <2> QED BY <1>4, <1>5, <2>2, <2>3 DEF Owed
  <1>6. CASE CallerGrants
    <2>1. Put("window") /\ credit' = credit /\ granted' = granted + 1
      BY <1>6 DEF CallerGrants, outp
    <2>2. Count(in', "window") = Count(in, "window") + 1
      BY <1>0, <1>1, <2>1, PutCounts
    <2>3. credit' = credit /\ granted' = granted + 1 /\ outputSequence' = outputSequence /\ Taken' = Taken
      BY <1>4, <1>6, <2>1
    <2>4. credit' + Count(in', "window") + Cardinality(Taken') + outputSequence' <= granted'
      BY <1>n, <2>2, <2>3
    <2> QED BY <2>4 DEF Owed
  <1>7. CASE ConnectionLost
    <2>1. in' = <<>> /\ credit' = credit /\ granted' = granted
      BY <1>7 DEF ConnectionLost, outp, caller
    <2>2. Count(in', "window") = 0
      BY <2>1, CountEmpty
    <2>3. credit' = credit /\ granted' = granted /\ outputSequence' = outputSequence /\ Taken' = Taken
      BY <1>4, <1>7, <2>1
    <2>4. credit' + Count(in', "window") + Cardinality(Taken') + outputSequence' <= granted'
      BY <1>n, <2>2, <2>3
    <2> QED BY <2>4 DEF Owed
  <1>8. CASE ReadFrame
    <2>1. in # <<>> /\ in' = Tail(in) /\ granted' = granted
      BY <1>8 DEF ReadFrame, ReadStray, ReadWindow, ReadCancel, ReadItem, ReadWrong, Reads,
                  ReaderAborts, ReadEnd, caller
    <2>2. /\ Count(in, "window") = IF Head(in) = "window" THEN Count(in', "window") + 1 ELSE Count(in', "window")
          /\ Count(in', "window") \in Nat /\ Count(in', "window") <= Count(in, "window")
      BY <1>0, <1>1, <2>1, TakeCounts
    <2>3. CASE ReadWindow
      <3>1. Head(in) = "window" /\ credit' = credit + 1
        BY <2>3 DEF ReadWindow, Reads
      <3>2. granted' = granted /\ outputSequence' = outputSequence /\ Taken' = Taken
        BY <1>4, <1>8, <2>1
      <3>3. Count(in, "window") = Count(in', "window") + 1
        BY <2>2, <3>1
      <3>4. credit' + Count(in', "window") + Cardinality(Taken') + outputSequence' <= granted'
        BY <1>n, <2>2, <3>1, <3>2, <3>3
      <3> QED BY <3>4 DEF Owed
    <2>4. CASE ~ReadWindow
      <3>1. credit' = credit
        BY <1>8, <2>4 DEF ReadFrame, ReadStray, ReadCancel, ReadItem, ReadWrong, ReaderAborts, ReadEnd, outp
      <3>2. granted' = granted /\ outputSequence' = outputSequence /\ Taken' = Taken
        BY <1>4, <1>8, <2>1
      <3>3. Count(in', "window") \in Nat /\ Count(in', "window") <= Count(in, "window")
        BY <2>2
      <3>4. credit' + Count(in', "window") + Cardinality(Taken') + outputSequence' <= granted'
        BY <1>n, <3>1, <3>2, <3>3
      <3> QED BY <3>4 DEF Owed
    <2> QED BY <2>3, <2>4
  <1>9. CASE UNCHANGED <<in, granted, credit, sp, outputSequence>>
    BY <1>9 DEF Owed, Taken
  <1> QED BY <1>3, <1>5, <1>6, <1>7, <1>8, <1>9, CreditKinds

\* Each item was numbered.
LEMMA ItemsStep ==
  ASSUME out \in Seq(AnyFrame), NEW f \in AnyFrame, Emit(f)
  PROVE  /\ Cardinality(Items) \in Nat
         /\ f.kind # "item" => Cardinality(Items') = Cardinality(Items)
         /\ Cardinality(Items') \in {Cardinality(Items), Cardinality(Items) + 1}
  <1>1. DOMAIN out = 1..Len(out) /\ Len(out) \in Nat
    BY LenProperties
  <1>2. Items \subseteq 1..Len(out) /\ IsFiniteSet(1..Len(out))
    BY <1>1, FS_Interval DEF Items
  <1>3. IsFiniteSet(Items) /\ Cardinality(Items) \in Nat
    BY <1>2, FS_Subset, FS_CardinalityType
  <1>4. CASE lost
    <2>1. Items' = Items
      BY <1>4, Emitted DEF Items
    <2> QED BY <1>3, <2>1
  <1>5. CASE ~lost
    <2>1. /\ DOMAIN out' = 1..Len(out) + 1
          /\ \A i \in 1..Len(out) : out'[i] = out[i]
          /\ out'[Len(out) + 1] = f
      BY <1>5, Emitted
    <2>2. 1..Len(out) + 1 = (1..Len(out)) \cup {Len(out) + 1}
      BY <1>1
    <2>3. CASE f.kind = "item"
      <3>1. Items' = Items \cup {Len(out) + 1}
        BY <1>1, <2>1, <2>2, <2>3 DEF Items
      <3> QED BY <1>3, <2>3, <3>1, FS_AddElement
    <2>4. CASE f.kind # "item"
      <3>1. Items' = Items
        BY <1>1, <2>1, <2>2, <2>4 DEF Items
      <3> QED BY <1>3, <3>1
    <2> QED BY <2>3, <2>4
  <1> QED BY <1>4, <1>5

LEMMA NumberedStep ==
  ASSUME Types, out \in Seq(AnyFrame), Cardinality(Items) <= outputSequence, [Next]_vars
  PROVE  Cardinality(Items') <= outputSequence'
  <1>0. outputSequence \in Nat
    BY DEF Types
  <1>1. ASSUME NEW s \in Senders, SendItem(s) PROVE Cardinality(Items') <= outputSequence'
    <2>1. Emit(Frame("item", outputSequence)) /\ outputSequence' = outputSequence + 1
      BY <1>1 DEF SendItem
    <2>2. Frame("item", outputSequence) \in AnyFrame
      BY <1>0, FrameTypes
    <2>3. /\ Cardinality(Items) \in Nat
          /\ Cardinality(Items') \in {Cardinality(Items), Cardinality(Items) + 1}
      BY <2>1, <2>2, ItemsStep
    <2> QED BY <1>0, <2>1, <2>3
  <1>2. CASE CloseSend \/ SendEnd
    <2>1. Emit(Frame("end", 0)) /\ outputSequence' = outputSequence
      BY <1>2 DEF CloseSend, SendEnd
    <2>2. Frame("end", 0) \in AnyFrame /\ Frame("end", 0).kind # "item"
      BY FrameTypes
    <2>3. Cardinality(Items') = Cardinality(Items)
      BY <2>1, <2>2, ItemsStep
    <2> QED BY <2>1, <2>3
  <1>3. ASSUME NEW a \in Finishers, FinishSend(a) PROVE Cardinality(Items') <= outputSequence'
    <2>1. PICK k \in {"result", "error"} : Emit(Frame(k, 0))
      BY <1>3, WhatIsSent
    <2>2. Frame(k, 0) \in AnyFrame /\ Frame(k, 0).kind # "item"
      BY <2>1, FrameTypes
    <2>3. outputSequence' = outputSequence
      BY <1>3 DEF FinishSend, outp
    <2>4. Cardinality(Items') = Cardinality(Items)
      BY <2>1, <2>2, ItemsStep
    <2> QED BY <2>3, <2>4
  <1>4. CASE UNCHANGED out
    <2>1. outputSequence' = outputSequence \/ outputSequence' = outputSequence + 1
      BY OutputKinds DEF SendBegins, SendUnfit, SendSteps, SendAcquires, SendFails, SendLocks, SendItem,
                         CloseOutput, SendEnd, CloseSend, NoOutput
    <2>2. Items' = Items
      BY <1>4 DEF Items
    <2>3. Cardinality(Items) \in Nat
      <3>1. DOMAIN out = 1..Len(out) /\ Len(out) \in Nat
        BY LenProperties
      <3>2. Items \subseteq 1..Len(out) /\ IsFiniteSet(1..Len(out))
        BY <3>1, FS_Interval DEF Items
      <3> QED BY <3>2, FS_Subset, FS_CardinalityType
    <2> QED BY <1>0, <2>1, <2>2, <2>3
  <1> QED BY <1>1, <1>2, <1>3, <1>4, OutKinds

LEMMA CreditStep ==
  ASSUME Types, HandlerAssumption, CreditInv, out \in Seq(AnyFrame), [Next]_vars
  PROVE  CreditInv'
  <1>1. Owed <= granted /\ Cardinality(Items) <= outputSequence
    BY DEF CreditInv, Owed
  <1>2. Owed' <= granted' /\ Cardinality(Items') <= outputSequence'
    BY <1>1, OwedStep, NumberedStep
  <1> QED BY <1>2 DEF CreditInv, Owed

-------------------------------------------------------------------------------
(* The input.                                                              *)

LEMMA InputCounts ==
  ASSUME input \in Seq(Events)
  PROVE  \A x \in Events : Count(input, x) \in Nat
  BY CountType

\* pushInput queues the event, or finds the queue ended.
LEMMA PushInput ==
  ASSUME input \in Seq(Events), NEW e \in Events, Push(e), ItemsFirst(input)
  PROVE  /\ ItemsFirst(input')
         /\ \/ input' = input /\ (Count(input, "end") # 0 \/ Count(input, "fail") # 0)
            \/ \A x \in Events : Count(input', x) = IF x = e THEN Count(input, x) + 1 ELSE Count(input, x)
  <1>1. DOMAIN input = 1..Len(input) /\ Len(input) \in Nat
    BY LenProperties
  <1>2. CASE input # <<>> /\ input[Len(input)] # "item"
    <2>1. input' = input
      BY <1>2 DEF Push
    <2>2. Len(input) \in DOMAIN input
      BY <1>1, <1>2, EmptySeq
    <2>3. input[Len(input)] \in {"end", "fail"}
      BY <1>1, <1>2, <2>2, ElementOfSeq DEF Events
    <2>4. /\ Count(input, "end") = 0 <=> \A i \in DOMAIN input : input[i] # "end"
          /\ Count(input, "fail") = 0 <=> \A i \in DOMAIN input : input[i] # "fail"
      BY CountType
    <2>5. Count(input, "end") # 0 \/ Count(input, "fail") # 0
      BY <2>2, <2>3, <2>4
    <2> QED BY <2>1, <2>5
  <1>3. CASE ~(input # <<>> /\ input[Len(input)] # "item")
    <2>1. input' = Append(input, e)
      BY <1>3 DEF Push
    <2>2. \A x \in Events : Count(input', x) = IF x = e THEN Count(input, x) + 1 ELSE Count(input, x)
      BY <2>1, CountAppend
    <2>3. /\ input' \in Seq(Events) /\ Len(input') = Len(input) + 1
          /\ \A i \in 1..Len(input) : input'[i] = input[i]
      BY <2>1, AppendProperties
    <2>4. DOMAIN input' = 1..Len(input')
      BY <2>3, LenProperties
    <2>5. ASSUME NEW i \in DOMAIN input', i < Len(input') PROVE input'[i] = "item"
      <3>1. i \in 1..Len(input) /\ input'[i] = input[i]
        BY <1>1, <2>3, <2>4, <2>5
      <3>2. CASE i < Len(input)
        BY <1>1, <3>1, <3>2 DEF ItemsFirst
      <3>3. CASE i = Len(input)
        <4>1. input # <<>>
          BY <1>1, <3>1, <3>3, EmptySeq
        <4> QED BY <1>3, <3>1, <3>3, <4>1
      <3> QED BY <1>1, <3>1, <3>2, <3>3
    <2> QED BY <2>2, <2>5 DEF ItemsFirst
  <1> QED BY <1>2, <1>3

\* nextInput takes the head; an end is alone in the queue.
LEMMA TakeInput ==
  ASSUME input \in Seq(Events), input # <<>>, ItemsFirst(input)
  PROVE  /\ Tail(input) \in Seq(Events) /\ ItemsFirst(Tail(input))
         /\ \A x \in Events :
              Count(input, x) = IF Head(input) = x THEN Count(Tail(input), x) + 1 ELSE Count(Tail(input), x)
         /\ Head(input) # "item" => \A x \in Events : Count(Tail(input), x) = 0
  <1>1. DOMAIN input = 1..Len(input) /\ Len(input) \in Nat \ {0}
    BY LenProperties, TailByIndex
  <1>2. /\ Tail(input) \in Seq(Events) /\ Len(Tail(input)) = Len(input) - 1
        /\ Head(input) = input[1]
        /\ \A i \in 1..Len(input) - 1 : Tail(input)[i] = input[i + 1]
    BY TailByIndex
  <1>3. DOMAIN Tail(input) = 1..Len(input) - 1
    BY <1>2, LenProperties
  <1>4. ASSUME NEW i \in DOMAIN Tail(input), i < Len(Tail(input)) PROVE Tail(input)[i] = "item"
    <2>1. i + 1 \in DOMAIN input /\ i + 1 < Len(input) /\ Tail(input)[i] = input[i + 1]
      BY <1>1, <1>2, <1>3, <1>4
    <2> QED BY <2>1 DEF ItemsFirst
  <1>5. \A x \in Events :
          Count(input, x) = IF Head(input) = x THEN Count(Tail(input), x) + 1 ELSE Count(Tail(input), x)
    BY CountTail
  <1>6. ASSUME Head(input) # "item", NEW x \in Events PROVE Count(Tail(input), x) = 0
    <2>1. ~(1 < Len(input))
      BY <1>1, <1>2, <1>6 DEF ItemsFirst
    <2>2. DOMAIN Tail(input) = {}
      BY <1>1, <1>3, <2>1
    <2>3. Count(Tail(input), x) = 0 <=> \A i \in DOMAIN Tail(input) : Tail(input)[i] # x
      BY <1>2, CountType
    <2> QED BY <2>2, <2>3
  <1> QED BY <1>2, <1>4, <1>5, <1>6 DEF ItemsFirst

\* An honest caller sends nothing of its stream after the end.
LEMMA PutAfterEnd ==
  ASSUME in \in Seq(Symbols), NothingAfterEnd(in), NEW f \in Symbols, Put(f),
         f \in {"item", "end"} => Count(in, "end") = 0
  PROVE  NothingAfterEnd(in')
  <1>1. DOMAIN in = 1..Len(in) /\ Len(in) \in Nat
    BY LenProperties
  <1>2. /\ in' \in Seq(Symbols) /\ Len(in') = Len(in) + 1
        /\ \A i \in 1..Len(in) : in'[i] = in[i]
        /\ in'[Len(in) + 1] = f
    BY AppendProperties DEF Put
  <1>3. DOMAIN in' = 1..Len(in) + 1
    BY <1>2, LenProperties
  <1>4. Count(in, "end") = 0 => \A i \in DOMAIN in : in[i] # "end"
    BY CountType
  <1>5. ASSUME NEW i \in DOMAIN in', NEW j \in DOMAIN in', i < j, in'[i] = "end"
        PROVE  in'[j] \notin {"item", "end"}
    <2>1. i \in DOMAIN in /\ in[i] = "end"
      BY <1>1, <1>2, <1>3, <1>5
    <2>2. CASE j = Len(in) + 1
      BY <1>2, <1>4, <2>1, <2>2
    <2>3. CASE j # Len(in) + 1
      <3>1. j \in DOMAIN in /\ in'[j] = in[j]
        BY <1>1, <1>2, <1>3, <2>3
      <3> QED BY <1>5, <2>1, <3>1 DEF NothingAfterEnd
    <2> QED BY <2>2, <2>3
  <1> QED BY <1>5 DEF NothingAfterEnd

LEMMA TakeAfterEnd ==
  ASSUME in \in Seq(Symbols), NothingAfterEnd(in), in # <<>>
  PROVE  /\ NothingAfterEnd(Tail(in))
         /\ Head(in) = "end" => Count(Tail(in), "item") = 0 /\ Count(Tail(in), "end") = 0
  <1>1. DOMAIN in = 1..Len(in) /\ Len(in) \in Nat \ {0}
    BY LenProperties, TailByIndex
  <1>2. /\ Tail(in) \in Seq(Symbols) /\ Len(Tail(in)) = Len(in) - 1
        /\ Head(in) = in[1]
        /\ \A i \in 1..Len(in) - 1 : Tail(in)[i] = in[i + 1]
    BY TailByIndex
  <1>3. DOMAIN Tail(in) = 1..Len(in) - 1
    BY <1>2, LenProperties
  <1>4. ASSUME NEW i \in DOMAIN Tail(in), NEW j \in DOMAIN Tail(in), i < j, Tail(in)[i] = "end"
        PROVE  Tail(in)[j] \notin {"item", "end"}
    <2>1. /\ i + 1 \in DOMAIN in /\ j + 1 \in DOMAIN in /\ i + 1 < j + 1
          /\ Tail(in)[i] = in[i + 1] /\ Tail(in)[j] = in[j + 1]
      BY <1>1, <1>2, <1>3, <1>4
    <2> QED BY <1>4, <2>1 DEF NothingAfterEnd
  <1>5. ASSUME Head(in) = "end" PROVE Count(Tail(in), "item") = 0 /\ Count(Tail(in), "end") = 0
    <2>1. ASSUME NEW i \in DOMAIN Tail(in) PROVE Tail(in)[i] \notin {"item", "end"}
      <3>1. 1 \in DOMAIN in /\ i + 1 \in DOMAIN in /\ 1 < i + 1 /\ Tail(in)[i] = in[i + 1] /\ in[1] = "end"
        BY <1>1, <1>2, <1>3, <1>5, <2>1
      <3> QED BY <3>1 DEF NothingAfterEnd
    <2>2. /\ Count(Tail(in), "item") = 0 <=> \A i \in DOMAIN Tail(in) : Tail(in)[i] # "item"
          /\ Count(Tail(in), "end") = 0 <=> \A i \in DOMAIN Tail(in) : Tail(in)[i] # "end"
      BY <1>2, CountType
    <2> QED BY <2>1, <2>2
  <1> QED BY <1>4, <1>5 DEF NothingAfterEnd

InputInv == ItemsInv /\ EndInv /\ HonestInv

\* Neither the caller's stream nor the handler's reading is involved.
NoInput ==
  /\ UNCHANGED <<shape, honest, lost, in, windows, sent, ended, mayUse,
                 input, inputClosed, read, sawEnd, reader, allowance>>
  /\ pc' = pc \/ (pc \in {"handler", "closing", "closed"} /\ pc' \in {"closing", "closed", "finish"})
  /\ cause' = cause \/ (cause = "none" /\ cause' \notin {"none", "protocol"})
  /\ present' => present

LEMMA InputKinds ==
  ASSUME Types, [Next]_vars
  PROVE  \/ CallerItem \/ CallerEnd \/ CallerCancel \/ CallerGrants \/ CallerSeesWindow
         \/ ConnectionLost \/ IdleFires \/ ReadStep
         \/ Start \/ Grant \/ RecvItem \/ RecvAllows \/ RecvWindow \/ RecvEnd
         \/ NoInput
  <1> USE DEF caller, wires, life, inp, outp, NoInput
  <1>1. CASE DeadlinePasses
    BY <1>1 DEF DeadlinePasses
  <1>2. ASSUME NEW e, pc = "handler", Return(e) PROVE NoInput
    <2>1. pc' \in {"closing", "finish"}
      BY <1>2 DEF Return
    <2> QED BY <1>2, <2>1 DEF Return
  <1>3. CASE CloseOutput
    <2>1. pc = "closing" /\ pc' \in {"finish", "closed"}
      BY <1>3 DEF CloseOutput
    <2> QED BY <1>3, <2>1 DEF CloseOutput
  <1>4. CASE SendEnd \/ CloseSend
    BY <1>4 DEF SendEnd, CloseSend
  <1>5. ASSUME NEW a \in Finishers, Finish(a) PROVE NoInput
    <2>1. CASE FinishSwap(a) \/ FinishSend(a)
      BY <2>1 DEF FinishSwap, FinishSend
    <2>2. CASE FinishCleanup(a)
      <3>1. cause' = cause \/ (cause = "none" /\ cause' \notin {"none", "protocol"})
        BY <2>2 DEF FinishCleanup, Cancel
      <3> QED BY <2>2, <3>1 DEF FinishCleanup
    <2> QED BY <1>5, <2>1, <2>2 DEF Finish
  <1>6. ASSUME NEW s \in Senders, SendBegins(s) \/ SendSteps(s) PROVE NoInput
    BY <1>6 DEF SendBegins, SendSteps, SendAcquires, SendFails, SendLocks, SendItem
  <1>7. ASSUME NEW s \in Senders, SendUnfit(s) PROVE NoInput
    <2>1. cause' = cause \/ (cause = "none" /\ cause' \notin {"none", "protocol"})
      BY <1>7 DEF SendUnfit, Cancel
    <2> QED BY <1>7, <2>1 DEF SendUnfit
  <1>8. CASE UNCHANGED vars
    BY <1>8 DEF vars
  <1> QED BY <1>1, <1>2, <1>3, <1>4, <1>5, <1>6, <1>7, <1>8
          DEF Next, CallerSteps, RunSteps, HandlerSteps, HandlerStops, HandlerReturns

LEMMA Numbers ==
  ASSUME Types, HandlerAssumption
  PROVE  /\ sent \in Nat /\ read \in Nat /\ allowance \in Nat /\ windows \in Nat /\ mayUse \in Int
         /\ Window \in Nat /\ Window > 0
         /\ Count(in, "item") \in Nat /\ Count(in, "end") \in Nat
         /\ Count(input, "item") \in Nat /\ Count(input, "end") \in Nat /\ Count(input, "fail") \in Nat
  <1>1. in \in Seq(Symbols) /\ input \in Seq(Events)
    BY DEF Types, Symbols, Events
  <1>2. {"item", "end"} \subseteq Symbols /\ {"item", "end", "fail"} \subseteq Events
    BY DEF Symbols, Events
  <1>3. /\ Count(in, "item") \in Nat /\ Count(in, "end") \in Nat
        /\ Count(input, "item") \in Nat /\ Count(input, "end") \in Nat /\ Count(input, "fail") \in Nat
    BY <1>1, <1>2, InCounts, InputCounts
  <1> QED BY <1>3 DEF Types, HandlerAssumption

LEMMA NoInputStep ==
  ASSUME Types, InputInv, NoInput
  PROVE  InputInv'
  <1>1. /\ UNCHANGED <<shape, honest, lost, in, windows, sent, ended, mayUse>>
        /\ UNCHANGED <<input, inputClosed, read, sawEnd, reader, allowance>>
        /\ pc' = pc \/ (pc \in {"handler", "closing", "closed"} /\ pc' \in {"closing", "closed", "finish"})
        /\ cause' = cause \/ (cause = "none" /\ cause' \notin {"none", "protocol"})
        /\ present' => present
    BY DEF NoInput
  <1>2. Handed' = Handed /\ (Ending' <=> Ending) /\ (Failed' <=> Failed) /\ (HasInput' <=> HasInput)
    BY <1>1 DEF Handed, Ending, Failed, HasInput
  <1>3. ItemsInv'
    BY <1>1, <1>2 DEF InputInv, ItemsInv
  <1>4. EndInv'
    BY <1>1, <1>2 DEF InputInv, EndInv
  <1>5. HonestInv'
    BY <1>1, <1>2 DEF InputInv, HonestInv, OrderInv, RoomInv, ReadInv
  <1> QED BY <1>3, <1>4, <1>5 DEF InputInv

\* The caller sends a frame.
LEMMA CallerStep ==
  ASSUME Types, HandlerAssumption, InputInv,
         CallerItem \/ CallerEnd \/ CallerCancel \/ CallerGrants
  PROVE  InputInv'
  <1>0. in \in Seq(Symbols) /\ honest \in BOOLEAN /\ ended \in BOOLEAN
    BY DEF Types, Symbols
  <1>n. /\ sent \in Nat /\ read \in Nat /\ allowance \in Nat /\ windows \in Nat /\ mayUse \in Int
        /\ Window \in Nat
        /\ Count(in, "item") \in Nat /\ Count(in, "end") \in Nat
        /\ Count(input, "item") \in Nat /\ Count(input, "end") \in Nat /\ Count(input, "fail") \in Nat
    BY Numbers
  <1>1. /\ ~lost /\ UNCHANGED <<shape, honest, lost, windows, pc, cause, present>>
        /\ UNCHANGED <<input, inputClosed, read, sawEnd, reader, allowance>>
    BY DEF CallerItem, CallerEnd, CallerCancel, CallerGrants, inp, life
  <1>2. Handed' = Handed /\ (Ending' <=> Ending) /\ (Failed' <=> Failed) /\ (HasInput' <=> HasInput)
    BY <1>1 DEF Handed, Ending, Failed, HasInput
  <1>3. CASE CallerItem
    <2>1. /\ Put("item") /\ sent' = sent + 1 /\ mayUse' = mayUse - 1 /\ ended' = ended
          /\ honest => HasInput /\ mayUse > 0 /\ ~ended
      BY <1>3 DEF CallerItem
    <2>2. Count(in', "item") = Count(in, "item") + 1 /\ Count(in', "end") = Count(in, "end")
      BY <1>0, <2>1, PutCounts DEF Symbols
    <2>3. ItemsInv'
      BY <1>n, <1>1, <1>2, <2>1, <2>2 DEF InputInv, ItemsInv, Handed
    <2>4. EndInv'
      BY <1>1, <1>2 DEF InputInv, EndInv
    <2>5. ASSUME honest PROVE OrderInv' /\ RoomInv' /\ ReadInv'
      <3>1. OrderInv /\ RoomInv /\ ReadInv /\ HasInput /\ mayUse > 0 /\ ~ended
        BY <2>1, <2>5 DEF InputInv, HonestInv
      <3>2. Count(in, "end") = 0 /\ ~Ending
        BY <3>1 DEF OrderInv
      <3>3. NothingAfterEnd(in')
        BY <1>0, <2>1, <3>1, <3>2, PutAfterEnd DEF OrderInv, Symbols
      <3>4. OrderInv'
        BY <1>n, <1>2, <2>1, <2>2, <3>1, <3>2, <3>3 DEF OrderInv
      <3>5. RoomInv'
        BY <1>n, <1>1, <1>2, <2>1, <2>2, <3>1 DEF RoomInv
      <3>6. ReadInv'
        BY <1>n, <1>1, <1>2, <2>1, <2>2, <3>1, <3>2 DEF ReadInv, Handed, Ending
      <3> QED BY <3>4, <3>5, <3>6
    <2>6. HonestInv'
      BY <1>1, <2>5 DEF InputInv, HonestInv
    <2> QED BY <2>3, <2>4, <2>6 DEF InputInv
  <1>4. CASE CallerEnd
    <2>1. Put("end") /\ sent' = sent /\ mayUse' = mayUse /\ ended' /\ ~ended /\ HasInput
      BY <1>4 DEF CallerEnd
    <2>2. Count(in', "item") = Count(in, "item") /\ Count(in', "end") = Count(in, "end") + 1
      BY <1>0, <2>1, PutCounts DEF Symbols
    <2>3. ItemsInv'
      BY <1>1, <1>2, <2>1, <2>2 DEF InputInv, ItemsInv
    <2>4. EndInv'
      BY <1>1, <1>2 DEF InputInv, EndInv
    <2>5. ASSUME honest PROVE OrderInv' /\ RoomInv' /\ ReadInv'
      <3>1. OrderInv /\ RoomInv /\ ReadInv
        BY <2>5 DEF InputInv, HonestInv
      <3>2. Count(in, "end") = 0 /\ ~Ending
        BY <2>1, <3>1 DEF OrderInv
      <3>3. NothingAfterEnd(in')
        BY <1>0, <2>1, <3>1, <3>2, PutAfterEnd DEF OrderInv, Symbols
      <3>4. OrderInv'
        BY <1>n, <1>2, <2>1, <2>2, <3>1, <3>2, <3>3 DEF OrderInv
      <3>5. RoomInv'
        BY <1>1, <1>2, <2>1, <2>2, <3>1 DEF RoomInv
      <3>6. ReadInv'
        BY <1>1, <1>2, <2>1, <2>2, <3>1 DEF ReadInv
      <3> QED BY <3>4, <3>5, <3>6
    <2>6. HonestInv'
      BY <1>1, <2>5 DEF InputInv, HonestInv
    <2> QED BY <2>3, <2>4, <2>6 DEF InputInv
  <1>5. CASE CallerCancel \/ CallerGrants
    <2>1. PICK f \in {"cancel", "window"} : Put(f)
      BY <1>5 DEF CallerCancel, CallerGrants
    <2>2. sent' = sent /\ mayUse' = mayUse /\ ended' = ended
      BY <1>5 DEF CallerCancel, CallerGrants
    <2>3. Count(in', "item") = Count(in, "item") /\ Count(in', "end") = Count(in, "end")
      BY <1>0, <2>1, PutCounts DEF Symbols
    <2>4. ItemsInv'
      BY <1>1, <1>2, <2>2, <2>3 DEF InputInv, ItemsInv
    <2>5. EndInv'
      BY <1>1, <1>2 DEF InputInv, EndInv
    <2>6. ASSUME honest PROVE OrderInv' /\ RoomInv' /\ ReadInv'
      <3>1. OrderInv /\ RoomInv /\ ReadInv
        BY <2>6 DEF InputInv, HonestInv
      <3>2. f \in Symbols /\ f \notin {"item", "end"}
        BY <2>1 DEF Symbols
      <3>3. NothingAfterEnd(in')
        BY <1>0, <2>1, <3>1, <3>2, PutAfterEnd DEF OrderInv
      <3>4. OrderInv'
        BY <1>2, <2>2, <2>3, <3>1, <3>3 DEF OrderInv
      <3>5. RoomInv'
        BY <1>1, <1>2, <2>2, <2>3, <3>1 DEF RoomInv
      <3>6. ReadInv'
        BY <1>1, <1>2, <2>2, <2>3, <3>1 DEF ReadInv
      <3> QED BY <3>4, <3>5, <3>6
    <2>7. HonestInv'
      BY <1>1, <2>6 DEF InputInv, HonestInv
    <2> QED BY <2>4, <2>5, <2>7 DEF InputInv
  <1> QED BY <1>3, <1>4, <1>5

LEMMA WiresStep ==
  ASSUME Types, HandlerAssumption, InputInv, CallerSeesWindow \/ ConnectionLost
  PROVE  InputInv'
  <1>n. /\ sent \in Nat /\ read \in Nat /\ windows \in Nat /\ mayUse \in Int /\ allowance \in Nat
        /\ Window \in Nat /\ Count(in, "item") \in Nat /\ Count(input, "item") \in Nat
    BY Numbers
  <1>1. /\ UNCHANGED <<shape, honest, pc, cause, present, sent, ended>>
        /\ UNCHANGED <<input, inputClosed, read, sawEnd, reader, allowance>>
    BY DEF CallerSeesWindow, ConnectionLost, inp, life, caller
  <1>2. Handed' = Handed /\ (Ending' <=> Ending) /\ (Failed' <=> Failed) /\ (HasInput' <=> HasInput)
    BY <1>1 DEF Handed, Ending, Failed, HasInput
  <1>3. CASE CallerSeesWindow
    <2>1. mayUse' = mayUse + windows /\ windows' = 0 /\ UNCHANGED <<in, lost>>
      BY <1>3 DEF CallerSeesWindow
    <2>2. ItemsInv'
      BY <1>1, <1>2, <2>1 DEF InputInv, ItemsInv
    <2>3. EndInv'
      BY <1>1, <1>2, <2>1 DEF InputInv, EndInv
    <2>4. HonestInv'
      BY <1>n, <1>1, <1>2, <2>1 DEF InputInv, HonestInv, OrderInv, RoomInv, ReadInv
    <2> QED BY <2>2, <2>3, <2>4 DEF InputInv
  <1>4. CASE ConnectionLost
    <2>1. mayUse' = mayUse /\ windows' = 0 /\ in' = <<>> /\ lost'
      BY <1>4 DEF ConnectionLost, caller
    <2>2. Count(in', "item") = 0 /\ Count(in', "end") = 0 /\ NothingAfterEnd(in')
      BY <2>1, CountEmpty DEF NothingAfterEnd
    <2>3. ItemsInv'
      BY <1>n, <1>1, <1>2, <2>2 DEF InputInv, ItemsInv, Handed
    <2>4. EndInv'
      BY <1>1, <1>2, <2>1 DEF InputInv, EndInv
    <2>5. HonestInv'
      BY <1>n, <1>1, <1>2, <2>1, <2>2 DEF InputInv, HonestInv, OrderInv, RoomInv, ReadInv
    <2> QED BY <2>3, <2>4, <2>5 DEF InputInv
  <1> QED BY <1>3, <1>4

\* abort: the queue fails, if it has not ended, and the context is cancelled.
LEMMA AbortInput ==
  ASSUME Types, ItemsFirst(input), NEW e \in {"cancelled", "idle", "lost", "protocol"}, Abort(e)
  PROVE  /\ ItemsFirst(input') /\ inputClosed'
         /\ cause' # "none" /\ cause' \in {cause, e} /\ (cause # "none" => cause' = cause)
         /\ Count(input', "item") = Count(input, "item") /\ Count(input', "end") = Count(input, "end")
         /\ Count(input', "fail") # 0 \/ (input' = input /\ Count(input, "end") # 0)
  <1>1. input \in Seq(Events) /\ "fail" \in Events /\ {"item", "end"} \subseteq Events
    BY DEF Types, Events
  <1>2. Push("fail") /\ inputClosed' /\ cause' = IF cause = "none" THEN e ELSE cause
    BY DEF Abort, Cancel
  <1>3. /\ ItemsFirst(input')
        /\ \/ input' = input /\ (Count(input, "end") # 0 \/ Count(input, "fail") # 0)
           \/ \A x \in Events : Count(input', x) = IF x = "fail" THEN Count(input, x) + 1 ELSE Count(input, x)
    BY <1>1, <1>2, PushInput
  <1>4. Count(input, "fail") \in Nat
    BY <1>1, InputCounts
  <1>5. /\ Count(input', "item") = Count(input, "item") /\ Count(input', "end") = Count(input, "end")
        /\ Count(input', "fail") # 0 \/ (input' = input /\ Count(input, "end") # 0)
    BY <1>1, <1>3, <1>4
  <1> QED BY <1>2, <1>3, <1>5

\* A frame leaves the wire, or none does.
LEMMA TakeFrame ==
  ASSUME Types, in' = in \/ (in # <<>> /\ in' = Tail(in))
  PROVE  /\ Count(in', "item") \in Nat /\ Count(in', "item") <= Count(in, "item")
         /\ Count(in', "end") \in Nat /\ Count(in', "end") <= Count(in, "end")
         /\ NothingAfterEnd(in) => NothingAfterEnd(in')
         /\ in = <<>> => in' = <<>>
  <1>1. in \in Seq(Symbols) /\ {"item", "end"} \subseteq Symbols
    BY DEF Types, Symbols
  <1>2. CASE in' = in
    <2>1. Count(in, "item") \in Nat /\ Count(in, "end") \in Nat
      BY <1>1, InCounts
    <2> QED BY <1>2, <2>1
  <1>3. CASE in # <<>> /\ in' = Tail(in)
    BY <1>1, <1>3, TakeCounts, TakeAfterEnd
  <1> QED BY <1>2, <1>3

LEMMA SumLess ==
  ASSUME NEW a \in Nat, NEW b \in Nat, NEW c \in Nat, NEW d \in Nat, NEW x \in Nat, NEW n \in Nat,
         a + b + c + d <= n, x <= d
  PROVE  a + b + c + x <= n
  OBVIOUS

LEMMA AbortedStep ==
  ASSUME Types, HandlerAssumption, InputInv,
         NEW e \in {"cancelled", "idle", "lost", "protocol"}, Abort(e),
         honest => e # "protocol" \/ cause # "none",
         UNCHANGED <<shape, honest, lost, pc, present, sent, ended, mayUse, windows, read, sawEnd, allowance>>,
         reader' = reader \/ (reader = "read" /\ reader' = "gone"),
         in' = in \/ (in # <<>> /\ in' = Tail(in))
  PROVE  InputInv'
  <1>n. /\ sent \in Nat /\ read \in Nat /\ Window \in Nat
        /\ Count(in, "item") \in Nat /\ Count(in, "end") \in Nat
        /\ Count(input, "item") \in Nat /\ Count(input, "end") \in Nat /\ Count(input, "fail") \in Nat
    BY Numbers
  <1>1. /\ ItemsFirst(input') /\ inputClosed'
        /\ cause' # "none" /\ cause' \in {cause, e} /\ (cause # "none" => cause' = cause)
        /\ Count(input', "item") = Count(input, "item") /\ Count(input', "end") = Count(input, "end")
        /\ Count(input', "fail") # 0 \/ (input' = input /\ Count(input, "end") # 0)
    BY AbortInput DEF InputInv, ItemsInv
  <1>2. /\ Count(in', "item") \in Nat /\ Count(in', "item") <= Count(in, "item")
        /\ Count(in', "end") \in Nat /\ Count(in', "end") <= Count(in, "end")
        /\ NothingAfterEnd(in) => NothingAfterEnd(in')
        /\ in = <<>> => in' = <<>>
    BY TakeFrame
  <1>3. /\ Handed' = Handed /\ (Ending' <=> Ending) /\ (HasInput' <=> HasInput)
        /\ Failed' \/ (input' = input /\ Ending)
    BY <1>1 DEF Handed, Ending, Failed, HasInput
  <1>4. ItemsInv'
    <2>1. Handed \in Nat
      BY DEF Handed
    <2>2. /\ read' = read /\ sent' = sent /\ Handed' = Handed
          /\ Count(input', "item") = Count(input, "item")
          /\ Count(in', "item") \in Nat /\ Count(in', "item") <= Count(in, "item")
      BY <1>1, <1>2, <1>3
    <2>3. read + Count(input, "item") + Handed + Count(in, "item") <= sent
      BY DEF InputInv, ItemsInv
    <2>4. read' + Count(input', "item") + Handed' + Count(in', "item") <= sent'
      BY <1>n, <2>1, <2>2, <2>3, SumLess
    <2> QED BY <1>1, <1>3, <2>4 DEF InputInv, ItemsInv
  <1>5. EndInv'
    BY <1>1, <1>2, <1>3 DEF InputInv, EndInv, Failed
  <1>6. ASSUME honest PROVE OrderInv' /\ RoomInv' /\ ReadInv' /\ cause' # "protocol"
    <2>1. OrderInv /\ ReadInv /\ cause # "protocol"
      BY <1>6 DEF InputInv, HonestInv
    <2>2. OrderInv'
      BY <1>n, <1>2, <1>3, <2>1 DEF OrderInv
    <2>3. RoomInv'
      BY <1>1 DEF RoomInv
    <2>4. ReadInv'
      <3>1. CASE Failed'
        BY <1>3, <2>1, <3>1 DEF ReadInv
      <3>2. CASE ~Failed'
        <4>1. input' = input /\ Ending /\ (Failed' <=> Failed)
          BY <1>3, <3>2 DEF Failed
        <4>2. Count(in, "item") = 0 /\ Count(in', "item") = 0
          BY <1>n, <1>2, <2>1, <4>1 DEF OrderInv
        <4> QED BY <1>3, <2>1, <4>1, <4>2 DEF ReadInv
      <3> QED BY <3>1, <3>2
    <2>5. cause' # "protocol"
      BY <1>1, <1>6, <2>1
    <2> QED BY <2>2, <2>3, <2>4, <2>5
  <1>7. HonestInv'
    BY <1>6 DEF HonestInv
  <1> QED BY <1>4, <1>5, <1>7 DEF InputInv

LEMMA AbortsStep ==
  ASSUME Types, HandlerAssumption, InputInv, IdleFires \/ ReadCancel \/ ReadWrong \/ ReadLost
  PROVE  InputInv'
  <1> USE DEF caller, wires
  <1>1. CASE IdleFires
    <2>1. Abort("idle")
      BY <1>1 DEF IdleFires
    <2>2. /\ UNCHANGED <<shape, honest, lost, pc, present, sent, ended, mayUse, windows, read, sawEnd, allowance>>
          /\ reader' = reader /\ in' = in
      BY <1>1 DEF IdleFires
    <2> QED BY <2>1, <2>2, AbortedStep
  <1>2. CASE ReadCancel
    <2>1. ReaderAborts("cancelled") /\ in # <<>>
      BY <1>2 DEF ReadCancel, Reads
    <2>2. /\ UNCHANGED <<shape, honest, lost, pc, present, sent, ended, mayUse, windows, read, sawEnd, allowance>>
          /\ reader' = reader /\ in' = Tail(in) /\ Abort("cancelled")
      BY <2>1 DEF ReaderAborts
    <2> QED BY <2>1, <2>2, AbortedStep
  <1>3. CASE ReadWrong
    <2>1. ReaderAborts("protocol") /\ in # <<>>
      BY <1>3 DEF ReadWrong, Reads
    <2>2. /\ UNCHANGED <<shape, honest, lost, pc, present, sent, ended, mayUse, windows, read, sawEnd, allowance>>
          /\ reader' = reader /\ in' = Tail(in) /\ Abort("protocol")
      BY <2>1 DEF ReaderAborts
    <2>3. ASSUME honest PROVE cause # "none"
      <3> SUFFICES ASSUME cause = "none" PROVE FALSE
        OBVIOUS
      <3>n. /\ mayUse \in Int /\ windows \in Nat /\ allowance \in Nat /\ Window \in Nat
            /\ Count(in, "item") \in Nat /\ Count(in, "end") \in Nat
        BY Numbers
      <3>1. OrderInv /\ RoomInv
        BY <2>3 DEF InputInv, HonestInv
      <3>2. in \in Seq(Symbols) /\ {"item", "end"} \subseteq Symbols
        BY DEF Types, Symbols
      <3>3. \A x \in Symbols :
              /\ Count(in, x) = IF Head(in) = x THEN Count(in', x) + 1 ELSE Count(in', x)
              /\ Count(in', x) \in Nat
        BY <2>1, <2>2, <3>2, TakeCounts
      <3>4. CASE Head(in) = "item" /\ ~ItemOK
        <4>1. Count(in, "item") >= 1
          BY <3>2, <3>3, <3>4
        <4>2. HasInput /\ ~Ending
          BY <4>1 , <3>1, <3>n DEF OrderInv
        <4>3. ~inputClosed /\ allowance >= 1
          BY <4>1, <4>2, <3>1, <3>n DEF RoomInv, OrderInv
        <4> QED BY <3>4, <4>2, <4>3, <3>n DEF ItemOK
      <3>5. CASE Head(in) = "end" /\ inputClosed
        <4>1. Count(in, "end") >= 1
          BY <3>2, <3>3, <3>5
        <4>2. Ending
          BY <3>1, <3>5 DEF RoomInv
        <4> QED BY <3>1, <4>1, <4>2 DEF OrderInv
      <3> QED BY <1>3, <3>4, <3>5 DEF ReadWrong, Reads
    <2> QED BY <2>1, <2>2, <2>3, AbortedStep
  <1>4. CASE ReadLost
    <2>1. /\ UNCHANGED <<shape, honest, lost, pc, present, sent, ended, mayUse, windows, read, sawEnd, allowance>>
          /\ reader = "read" /\ reader' = "gone" /\ in' = in
      BY <1>4 DEF ReadLost
    <2>2. CASE present
      <3>1. Abort("lost")
        BY <1>4, <2>2 DEF ReadLost
      <3> QED BY <2>1, <3>1, AbortedStep
    <2>3. CASE ~present
      <3>1. UNCHANGED <<cause, input, inputClosed>>
        BY <1>4, <2>3 DEF ReadLost
      <3>2. Handed' = Handed /\ (Ending' <=> Ending) /\ (Failed' <=> Failed) /\ (HasInput' <=> HasInput)
        BY <2>1, <3>1 DEF Handed, Ending, Failed, HasInput
      <3>3. ItemsInv'
        BY <2>1, <3>1, <3>2 DEF InputInv, ItemsInv
      <3>4. EndInv'
        BY <2>1, <3>1, <3>2 DEF InputInv, EndInv
      <3>5. HonestInv'
        BY <2>1, <3>1, <3>2 DEF InputInv, HonestInv, OrderInv, RoomInv, ReadInv
      <3> QED BY <3>3, <3>4, <3>5 DEF InputInv
    <2> QED BY <2>2, <2>3
  <1> QED BY <1>1, <1>2, <1>3, <1>4

\* The session's reader takes a frame that does not end the call.
LEMMA ReaderTakesStep ==
  ASSUME Types, HandlerAssumption, InputInv, ReadStray \/ ReadWindow \/ ReadItem \/ ReadEnd
  PROVE  InputInv'
  <1>n. /\ sent \in Nat /\ read \in Nat /\ allowance \in Nat /\ windows \in Nat /\ mayUse \in Int
        /\ Window \in Nat
        /\ Count(in, "item") \in Nat /\ Count(in, "end") \in Nat
        /\ Count(input, "item") \in Nat /\ Count(input, "end") \in Nat /\ Count(input, "fail") \in Nat
    BY Numbers
  <1>0. in \in Seq(Symbols) /\ {"item", "end"} \subseteq Symbols
    BY DEF Types, Symbols
  <1>t. in # <<>> /\ in' = Tail(in)
    BY DEF ReadStray, ReadWindow, ReadItem, ReadEnd, Reads
  <1>1. /\ reader = "read"
        /\ UNCHANGED <<shape, honest, lost, pc, present, sent, ended, mayUse, windows, cause>>
        /\ UNCHANGED <<input, read, sawEnd>>
    BY DEF ReadStray, ReadWindow, ReadItem, ReadEnd, Reads, caller, inp, life
  <1>2. /\ Count(in', "item") \in Nat /\ Count(in', "item") <= Count(in, "item")
        /\ Count(in', "end") \in Nat /\ Count(in', "end") <= Count(in, "end")
        /\ NothingAfterEnd(in) => NothingAfterEnd(in')
    BY <1>t, TakeFrame
  <1>3. ~lost
    BY <1>t DEF InputInv, EndInv, Types
  <1>4. /\ Count(in, "item") = IF Head(in) = "item" THEN Count(in', "item") + 1 ELSE Count(in', "item")
        /\ Count(in, "end") = IF Head(in) = "end" THEN Count(in', "end") + 1 ELSE Count(in', "end")
    BY <1>0, <1>t, TakeCounts
  <1>5. (Failed' <=> Failed) /\ (HasInput' <=> HasInput) /\ Handed = 0
    BY <1>1 DEF Failed, HasInput, Handed
  <1>6. CASE ReadStray \/ ReadWindow
    <2>1. UNCHANGED <<inputClosed, reader, allowance>>
      BY <1>6 DEF ReadStray, ReadWindow, inp
    <2>2. Handed' = Handed /\ (Ending' <=> Ending)
      BY <1>1, <2>1 DEF Handed, Ending
    <2>3. ItemsInv'
      <3>1. read' + Count(input', "item") + Handed' + Count(in', "item") <= sent'
        BY <1>n, <1>1, <1>2, <1>5, <2>2 DEF InputInv, ItemsInv
      <3> QED BY <1>1, <2>1, <2>2, <3>1 DEF InputInv, ItemsInv
    <2>4. EndInv'
      BY <1>1, <1>3, <1>5, <2>1, <2>2 DEF InputInv, EndInv
    <2>5. ASSUME honest PROVE OrderInv' /\ RoomInv' /\ ReadInv' /\ cause' # "protocol"
      <3>1. OrderInv /\ RoomInv /\ ReadInv /\ cause # "protocol"
        BY <2>5 DEF InputInv, HonestInv
      <3>2. OrderInv'
        BY <1>n, <1>1, <1>2, <1>5, <2>2, <3>1 DEF OrderInv
      <3>3. RoomInv'
        BY <1>n, <1>1, <1>2, <2>1, <2>2, <3>1 DEF RoomInv
      <3>4. ReadInv'
        <4>1. CASE ReadStray
          <5>1. ~present
            BY <4>1 DEF ReadStray
          <5> QED BY <1>1, <1>5, <2>2, <3>1, <5>1 DEF ReadInv
        <4>2. CASE ReadWindow
          <5>1. Count(in', "item") = Count(in, "item")
            BY <1>4, <4>2 DEF ReadWindow, Reads
          <5> QED BY <1>1, <1>5, <2>2, <3>1, <5>1 DEF ReadInv
        <4> QED BY <1>6, <4>1, <4>2
      <3> QED BY <1>1, <3>1, <3>2, <3>3, <3>4
    <2>6. HonestInv'
      BY <1>1, <2>5 DEF HonestInv
    <2> QED BY <2>3, <2>4, <2>6 DEF InputInv
  <1>7. CASE ReadItem
    <2>1. /\ Head(in) = "item" /\ present /\ HasInput /\ ~inputClosed /\ allowance > 0
          /\ reader' = "arm" /\ allowance' = allowance - 1 /\ inputClosed' = inputClosed
      BY <1>7 DEF ReadItem, Reads, ItemOK, Spent
    <2>2. Handed' = 1 /\ ~Ending /\ ~Ending' /\ Count(in, "item") = Count(in', "item") + 1
      BY <1>1, <1>4, <2>1 DEF Handed, Ending, InputInv, EndInv
    <2>3. pc # "start"
      BY <2>1 DEF InputInv, ItemsInv
    <2>4. ItemsInv'
      <3>1. read' + Count(input', "item") + Handed' + Count(in', "item") <= sent'
        BY <1>n, <1>1, <1>2, <1>5, <2>2 DEF InputInv, ItemsInv
      <3>2. allowance' + Count(input', "item") + Handed' + (IF pc' = "allow" THEN 1 ELSE 0) <= Window
        BY <1>n, <1>1, <1>5, <2>1, <2>2, <2>3 DEF InputInv, ItemsInv
      <3> QED BY <1>1, <2>3, <3>1, <3>2 DEF InputInv, ItemsInv
    <2>5. EndInv'
      BY <1>1, <1>3, <1>5, <2>1, <2>2 DEF InputInv, EndInv, Ending
    <2>6. ASSUME honest PROVE OrderInv' /\ RoomInv' /\ ReadInv' /\ cause' # "protocol"
      <3>1. OrderInv /\ RoomInv /\ ReadInv /\ cause # "protocol"
        BY <2>6 DEF InputInv, HonestInv
      <3>2. OrderInv'
        BY <1>n, <1>1, <1>2, <1>5, <2>1, <2>2, <3>1 DEF OrderInv
      <3>3. RoomInv'
        BY <1>n, <1>1, <1>2, <2>1, <2>2, <3>1 DEF RoomInv
      <3>4. ReadInv'
        BY <1>n, <1>1, <1>2, <1>5, <2>1, <2>2, <3>1 DEF ReadInv, Ending
      <3> QED BY <1>1, <3>1, <3>2, <3>3, <3>4
    <2>7. HonestInv'
      BY <1>1, <2>6 DEF HonestInv
    <2> QED BY <2>4, <2>5, <2>7 DEF InputInv
  <1>8. CASE ReadEnd
    <2>1. /\ Head(in) = "end" /\ present /\ ~inputClosed /\ inputClosed'
          /\ reader' = "pushEnd" /\ allowance' = allowance
      BY <1>8 DEF ReadEnd, Reads
    <2>2. /\ Handed' = 0 /\ ~Ending /\ Ending' /\ ~sawEnd /\ Count(input, "end") = 0
          /\ Count(in, "item") = Count(in', "item") /\ Count(in, "end") = Count(in', "end") + 1
      BY <1>1, <1>4, <2>1 DEF Handed, Ending, InputInv, EndInv
    <2>3. ItemsInv'
      <3>1. read' + Count(input', "item") + Handed' + Count(in', "item") <= sent'
        BY <1>n, <1>1, <1>2, <1>5, <2>2 DEF InputInv, ItemsInv
      <3> QED BY <1>1, <1>5, <2>1, <2>2, <3>1 DEF InputInv, ItemsInv
    <2>4. EndInv'
      BY <1>1, <1>3, <1>5, <2>1, <2>2 DEF InputInv, EndInv
    <2>5. ASSUME honest PROVE OrderInv' /\ RoomInv' /\ ReadInv' /\ cause' # "protocol"
      <3>1. OrderInv /\ RoomInv /\ ReadInv /\ cause # "protocol"
        BY <2>5 DEF InputInv, HonestInv
      <3>2. Count(in', "item") = 0 /\ Count(in', "end") = 0 /\ Count(in, "item") = 0
        BY <1>0, <1>t, <2>1, <2>2, <3>1, TakeAfterEnd DEF OrderInv
      <3>3. ended
        BY <1>2, <2>2, <3>1 DEF OrderInv
      <3>4. OrderInv'
        BY <1>1, <1>2, <3>1, <3>2, <3>3 DEF OrderInv
      <3>5. RoomInv'
        BY <1>1, <2>1, <2>2, <3>1 DEF RoomInv
      <3>6. ReadInv'
        BY <1>n, <1>1, <1>3, <1>5, <2>1, <2>2, <3>1, <3>2 DEF ReadInv
      <3> QED BY <1>1, <3>1, <3>4, <3>5, <3>6
    <2>6. HonestInv'
      BY <1>1, <2>5 DEF HonestInv
    <2> QED BY <2>3, <2>4, <2>6 DEF InputInv
  <1> QED BY <1>6, <1>7, <1>8

\* The reader hands on what it took.
LEMMA ReaderHandsStep ==
  ASSUME Types, HandlerAssumption, InputInv, ReadArm \/ ReadPush
  PROVE  InputInv'
  <1>n. /\ sent \in Nat /\ read \in Nat /\ allowance \in Nat /\ windows \in Nat /\ mayUse \in Int
        /\ Window \in Nat
        /\ Count(in, "item") \in Nat /\ Count(in, "end") \in Nat
        /\ Count(input, "item") \in Nat /\ Count(input, "end") \in Nat /\ Count(input, "fail") \in Nat
    BY Numbers
  <1>0. input \in Seq(Events) /\ {"item", "end", "fail"} \subseteq Events /\ ItemsFirst(input)
    BY DEF Types, Events, InputInv, ItemsInv
  <1>1. /\ UNCHANGED <<shape, honest, lost, pc, present, sent, ended, mayUse, windows, cause, in>>
        /\ UNCHANGED <<read, sawEnd, inputClosed, allowance>>
    BY DEF ReadArm, ReadPush, caller, wires, life
  <1>2. HasInput' <=> HasInput
    BY <1>1 DEF HasInput
  <1>3. CASE ReadArm
    <2>1. reader = "arm" /\ reader' = "push" /\ input' = input
      BY <1>3 DEF ReadArm
    <2>2. Handed' = Handed /\ (Ending' <=> Ending) /\ (Failed' <=> Failed)
      BY <1>1, <2>1 DEF Handed, Ending, Failed
    <2>3. ItemsInv'
      BY <1>1, <2>1, <2>2 DEF InputInv, ItemsInv
    <2>4. EndInv'
      BY <1>1, <2>1, <2>2 DEF InputInv, EndInv
    <2>5. HonestInv'
      BY <1>1, <1>2, <2>1, <2>2 DEF InputInv, HonestInv, OrderInv, RoomInv, ReadInv
    <2> QED BY <2>3, <2>4, <2>5 DEF InputInv
  <1>4. CASE ReadPush /\ reader = "push"
    <2>1. Push("item") /\ reader' = "read" /\ Count(input, "end") = 0
      BY <1>4 DEF ReadPush, InputInv, EndInv
    <2>2. /\ ItemsFirst(input')
          /\ \/ input' = input /\ (Count(input, "end") # 0 \/ Count(input, "fail") # 0)
             \/ \A x \in Events : Count(input', x) = IF x = "item" THEN Count(input, x) + 1 ELSE Count(input, x)
      BY <1>0, <2>1, PushInput
    <2>3. /\ Count(input', "end") = Count(input, "end") /\ Count(input', "fail") = Count(input, "fail")
          /\ \/ Count(input', "item") = Count(input, "item") /\ Count(input, "fail") # 0
             \/ Count(input', "item") = Count(input, "item") + 1
      BY <1>0, <2>1, <2>2
    <2>4. Handed = 1 /\ Handed' = 0 /\ (Ending' <=> Ending) /\ (Failed' <=> Failed)
      BY <1>1, <1>4, <2>1, <2>3 DEF Handed, Ending, Failed
    <2>5. ItemsInv'
      <3>1. read' + Count(input', "item") + Handed' + Count(in', "item") <= sent'
        BY <1>n, <1>1, <2>3, <2>4 DEF InputInv, ItemsInv
      <3>2. pc # "start"
        BY <2>4 DEF InputInv, ItemsInv
      <3>3. allowance' + Count(input', "item") + Handed' + (IF pc' = "allow" THEN 1 ELSE 0) <= Window
        BY <1>n, <1>1, <2>3, <2>4, <3>2 DEF InputInv, ItemsInv
      <3> QED BY <1>1, <2>2, <3>1, <3>2, <3>3 DEF ItemsInv
    <2>6. EndInv'
      BY <1>1, <2>1, <2>3, <2>4 DEF InputInv, EndInv
    <2>7. ASSUME honest PROVE OrderInv' /\ RoomInv' /\ ReadInv' /\ cause' # "protocol"
      <3>1. OrderInv /\ RoomInv /\ ReadInv /\ cause # "protocol"
        BY <2>7 DEF InputInv, HonestInv
      <3>2. OrderInv'
        BY <1>1, <1>2, <2>4, <3>1 DEF OrderInv
      <3>3. RoomInv'
        BY <1>1, <2>4, <3>1 DEF RoomInv
      <3>4. ~sawEnd
        BY <1>n, <2>4, <3>1 DEF ReadInv, InputInv, ItemsInv
      <3>5. ~Ending
        BY <1>4, <2>1, <3>4 DEF Ending
      <3>6. Count(input', "item") = Count(input, "item") + 1 \/ Failed
        BY <2>3 DEF Failed
      <3>7. ReadInv'
        BY <1>n, <1>1, <2>4, <3>1, <3>4, <3>5, <3>6 DEF ReadInv
      <3> QED BY <1>1, <3>1, <3>2, <3>3, <3>7
    <2>8. HonestInv'
      BY <1>1, <2>7 DEF HonestInv
    <2> QED BY <2>5, <2>6, <2>8 DEF InputInv
  <1>5. CASE ReadPush /\ reader = "pushEnd"
    <2>1. Push("end") /\ reader' = "read" /\ ~sawEnd /\ Count(input, "end") = 0
      BY <1>5 DEF ReadPush, InputInv, EndInv
    <2>2. /\ ItemsFirst(input')
          /\ \/ input' = input /\ (Count(input, "end") # 0 \/ Count(input, "fail") # 0)
             \/ \A x \in Events : Count(input', x) = IF x = "end" THEN Count(input, x) + 1 ELSE Count(input, x)
      BY <1>0, <2>1, PushInput
    <2>3. /\ Count(input', "item") = Count(input, "item") /\ Count(input', "fail") = Count(input, "fail")
          /\ \/ Count(input', "end") = Count(input, "end") /\ Count(input, "fail") # 0
             \/ Count(input', "end") = Count(input, "end") + 1
      BY <1>0, <2>1, <2>2
    <2>4. Handed = 0 /\ Handed' = 0 /\ Ending /\ (Ending' \/ Failed) /\ (Failed' <=> Failed) /\ inputClosed
      BY <1>n, <1>1, <1>5, <2>1, <2>3 DEF Handed, Ending, Failed, InputInv, EndInv
    <2>5. ItemsInv'
      BY <1>1, <2>2, <2>3, <2>4 DEF InputInv, ItemsInv
    <2>6. EndInv'
      BY <1>1, <2>1, <2>4 DEF InputInv, EndInv
    <2>7. ASSUME honest PROVE OrderInv' /\ RoomInv' /\ ReadInv' /\ cause' # "protocol"
      <3>1. OrderInv /\ RoomInv /\ ReadInv /\ cause # "protocol"
        BY <2>7 DEF InputInv, HonestInv
      <3>2. OrderInv'
        BY <1>1, <1>2, <2>4, <3>1 DEF OrderInv
      <3>3. Failed => cause # "none"
        BY DEF InputInv, EndInv
      <3>4. RoomInv'
        BY <1>1, <2>4, <3>1, <3>3 DEF RoomInv
      <3>5. ReadInv'
        BY <1>1, <2>1, <2>3, <2>4, <3>1 DEF ReadInv
      <3> QED BY <1>1, <3>1, <3>2, <3>4, <3>5
    <2>8. HonestInv'
      BY <1>1, <2>7 DEF HonestInv
    <2> QED BY <2>5, <2>6, <2>8 DEF InputInv
  <1> QED BY <1>3, <1>4, <1>5 DEF ReadPush

\* The handler is started, grants and reads.
LEMMA HandlerReadsStep ==
  ASSUME Types, HandlerAssumption, InputInv,
         Start \/ Grant \/ RecvItem \/ RecvAllows \/ RecvWindow \/ RecvEnd
  PROVE  InputInv'
  <1>n. /\ sent \in Nat /\ read \in Nat /\ allowance \in Nat /\ windows \in Nat /\ mayUse \in Int
        /\ Window \in Nat
        /\ Count(in, "item") \in Nat /\ Count(in, "end") \in Nat
        /\ Count(input, "item") \in Nat /\ Count(input, "end") \in Nat /\ Count(input, "fail") \in Nat
    BY Numbers
  <1>0. input \in Seq(Events) /\ {"item", "end", "fail"} \subseteq Events /\ ItemsFirst(input)
    BY DEF Types, Events, InputInv, ItemsInv
  <1>1. /\ UNCHANGED <<shape, honest, lost, present, sent, ended, mayUse, cause, in>>
        /\ UNCHANGED <<inputClosed, reader>>
    BY DEF Start, Grant, RecvItem, RecvAllows, RecvWindow, RecvEnd, caller, wires, life, inp
  <1>2. (HasInput' <=> HasInput) /\ Handed' = Handed /\ Handed \in {0, 1}
    BY <1>1 DEF HasInput, Handed
  <1>3. CASE Start \/ Grant \/ RecvAllows \/ RecvWindow
    <2>1. UNCHANGED <<input, read, sawEnd>>
      BY <1>3 DEF Start, Grant, RecvAllows, RecvWindow, inp
    <2>2. (Ending' <=> Ending) /\ (Failed' <=> Failed)
      BY <1>1, <2>1 DEF Ending, Failed
    <2>3. EndInv'
      BY <1>1, <2>1, <2>2 DEF InputInv, EndInv
    <2>4. ASSUME /\ pc # "start"
                 /\ allowance + Count(input, "item") + Handed + (IF pc = "allow" THEN 1 ELSE 0) <= Window
                      => allowance' + Count(input, "item") + Handed + (IF pc' = "allow" THEN 1 ELSE 0) <= Window,
                 pc' # "start",
                 mayUse + windows + Count(in, "item") + (IF pc = "window" THEN 1 ELSE 0)
                   + (IF pc = "grant" THEN Window ELSE 0) <= allowance
                   => mayUse + windows' + Count(in, "item") + (IF pc' = "window" THEN 1 ELSE 0)
                        + (IF pc' = "grant" THEN Window ELSE 0) <= allowance'
          PROVE  InputInv'
      <3>1. ItemsInv'
        BY <1>1, <1>2, <2>1, <2>4 DEF InputInv, ItemsInv
      <3>2. HonestInv'
        BY <1>1, <1>2, <2>1, <2>2, <2>4 DEF InputInv, HonestInv, OrderInv, RoomInv, ReadInv
      <3> QED BY <2>3, <3>1, <3>2 DEF InputInv
    <2>5. CASE Start
      <3>1. /\ pc = "start" /\ windows' = windows
            /\ pc' = IF HasInput THEN "grant" ELSE "handler"
            /\ allowance' = IF HasInput THEN Window ELSE 0
        BY <2>5 DEF Start, InitialAllowance, wires
      <3>2. allowance = 0 /\ Count(input, "item") = 0 /\ Handed = 0
        BY <3>1 DEF InputInv, ItemsInv
      <3>3. ItemsInv'
        <4>1. allowance' <= Window /\ allowance' \in Nat /\ pc' \notin {"start", "allow"}
          BY <1>n, <3>1
        <4>2. allowance' + Count(input', "item") + Handed' + (IF pc' = "allow" THEN 1 ELSE 0) <= Window
          BY <1>n, <1>2, <2>1, <3>2, <4>1
        <4> QED BY <1>1, <1>2, <2>1, <4>1, <4>2 DEF InputInv, ItemsInv
      <3>4. ASSUME honest PROVE OrderInv' /\ RoomInv' /\ ReadInv' /\ cause' # "protocol"
        <4>1. OrderInv /\ RoomInv /\ ReadInv /\ cause # "protocol"
          BY <3>4 DEF InputInv, HonestInv
        <4>2. OrderInv' /\ ReadInv'
          BY <1>1, <1>2, <2>1, <2>2, <4>1 DEF OrderInv, ReadInv
        <4>3. cause = "none" => mayUse + windows + Count(in, "item") <= 0
          BY <1>n, <3>1, <3>2, <4>1 DEF RoomInv
        <4>4. cause = "none" =>
                mayUse + windows + Count(in, "item") + (IF pc' = "window" THEN 1 ELSE 0)
                        + (IF pc' = "grant" THEN Window ELSE 0) <= allowance'
          BY <1>n, <3>1, <4>3
        <4>5. RoomInv'
          BY <1>1, <2>2, <3>1, <4>1, <4>4 DEF RoomInv
        <4> QED BY <1>1, <4>1, <4>2, <4>5
      <3>5. HonestInv'
        BY <1>1, <3>4 DEF HonestInv
      <3> QED BY <2>3, <3>3, <3>5 DEF InputInv
    <2>6. CASE Grant
      <3>1. /\ pc = "grant" /\ pc' = "handler" /\ windows' = (IF lost THEN 0 ELSE windows + Window)
            /\ allowance' = allowance
        BY <2>6 DEF Grant
      <3> QED BY <1>n, <2>4, <3>1
    <2>7. CASE RecvAllows
      <3>1. pc = "allow" /\ pc' = "window" /\ windows' = windows /\ allowance' = allowance + 1
        BY <2>7 DEF RecvAllows, wires
      <3> QED BY <1>n, <1>2, <2>4, <3>1
    <2>8. CASE RecvWindow
      <3>1. /\ pc = "window" /\ pc' = "handler" /\ windows' = (IF lost THEN 0 ELSE windows + 1)
            /\ allowance' = allowance
        BY <2>8 DEF RecvWindow, inp
      <3> QED BY <1>n, <2>4, <3>1
    <2> QED BY <1>3, <2>5, <2>6, <2>7, <2>8
  <1>4. CASE RecvItem
    <2>1. /\ pc = "handler" /\ ~sawEnd /\ input # <<>> /\ Head(input) = "item" /\ input' = Tail(input)
          /\ pc' = (IF inputClosed THEN "handler" ELSE "allow")
      BY <1>4 DEF RecvItem, NextEvent
    <2>2. read' = read + 1 /\ UNCHANGED <<windows, allowance, sawEnd>>
      BY <1>4 DEF RecvItem, wires
    <2>3. /\ ItemsFirst(input')
          /\ Count(input, "item") = Count(input', "item") + 1
          /\ Count(input, "end") = Count(input', "end") /\ Count(input, "fail") = Count(input', "fail")
      BY <1>0, <2>1, TakeInput
    <2>4. Count(input', "item") \in Nat
      BY <1>0, <2>1, TakeInput, CountType
    <2>5. (Ending' <=> Ending) /\ (Failed' <=> Failed)
      BY <1>1, <2>2, <2>3 DEF Ending, Failed
    <2>6. pc = "handler" /\ pc' \in {"handler", "allow"}
      BY <2>1
    <2>7. ItemsInv'
      <3>1. read' + Count(input', "item") + Handed' + Count(in', "item") <= sent'
        BY <1>n, <1>1, <1>2, <2>2, <2>3, <2>4 DEF InputInv, ItemsInv
      <3>2. allowance' + Count(input', "item") + Handed' + (IF pc' = "allow" THEN 1 ELSE 0) <= Window
        BY <1>n, <1>2, <2>2, <2>3, <2>4, <2>6 DEF InputInv, ItemsInv
      <3> QED BY <2>3, <2>6, <3>1, <3>2 DEF ItemsInv
    <2>8. EndInv'
      BY <1>1, <2>2, <2>3, <2>5 DEF InputInv, EndInv
    <2>9. ASSUME honest PROVE OrderInv' /\ RoomInv' /\ ReadInv' /\ cause' # "protocol"
      <3>1. OrderInv /\ RoomInv /\ ReadInv /\ cause # "protocol"
        BY <2>9 DEF InputInv, HonestInv
      <3>2. OrderInv'
        BY <1>1, <1>2, <2>5, <3>1 DEF OrderInv
      <3>3. RoomInv'
        BY <1>1, <2>2, <2>5, <2>6, <3>1 DEF RoomInv
      <3>4. ~sawEnd'
        BY <2>1, <2>2
      <3>5. ReadInv'
        BY <1>n, <1>1, <1>2, <2>2, <2>3, <2>4, <2>5, <3>1, <3>4 DEF ReadInv
      <3> QED BY <1>1, <3>1, <3>2, <3>3, <3>5
    <2>10. HonestInv'
      BY <1>1, <2>9 DEF HonestInv
    <2> QED BY <2>7, <2>8, <2>10 DEF InputInv
  <1>5. CASE RecvEnd
    <2>1. /\ ~sawEnd /\ input # <<>> /\ Head(input) = "end"
          /\ sawEnd' = TRUE /\ UNCHANGED <<input, read, windows, allowance, pc>>
      BY <1>5 DEF RecvEnd, NextEvent, wires
    <2>2. Count(input, "item") = 0 /\ Count(input, "fail") = 0 /\ Count(input, "end") = 1
      BY <1>0, <2>1, TakeInput
    <2>3. Ending /\ Ending' /\ ~Failed /\ (Failed' <=> Failed) /\ reader # "pushEnd"
      BY <1>1, <2>1, <2>2 DEF Ending, Failed, InputInv, EndInv
    <2>4. ItemsInv'
      BY <1>1, <1>2, <2>1 DEF InputInv, ItemsInv
    <2>5. EndInv'
      BY <1>1, <2>1, <2>3 DEF InputInv, EndInv
    <2>6. ASSUME honest PROVE OrderInv' /\ RoomInv' /\ ReadInv' /\ cause' # "protocol"
      <3>1. OrderInv /\ RoomInv /\ ReadInv /\ cause # "protocol"
        BY <2>6 DEF InputInv, HonestInv
      <3>2. OrderInv'
        BY <1>1, <1>2, <2>3, <3>1 DEF OrderInv
      <3>3. RoomInv'
        BY <1>1, <2>1, <2>3, <3>1 DEF RoomInv
      <3>4. ReadInv'
        BY <1>n, <1>1, <1>2, <2>1, <2>2, <2>3, <3>1 DEF ReadInv
      <3> QED BY <1>1, <3>1, <3>2, <3>3, <3>4
    <2>7. HonestInv'
      BY <1>1, <2>6 DEF HonestInv
    <2> QED BY <2>4, <2>5, <2>7 DEF InputInv
  <1> QED BY <1>3, <1>4, <1>5

LEMMA InputStep ==
  ASSUME Types, HandlerAssumption, InputInv, [Next]_vars
  PROVE  InputInv'
  BY InputKinds, NoInputStep, CallerStep, WiresStep, AbortsStep, ReaderTakesStep, ReaderHandsStep,
     HandlerReadsStep DEF ReadStep, ReadFrame

-------------------------------------------------------------------------------
(* The theorem.                                                            *)

LEMMA CallInitially == ASSUME HandlerAssumption, Init PROVE CallInv
  <1>1. Types
    BY TypesInitially
  <1>2. /\ \A x \in Symbols : Count(in, x) = 0
        /\ \A x \in Events : Count(input, x) = 0
        /\ DOMAIN in = {} /\ DOMAIN input = {} /\ DOMAIN out = {}
    <2>1. in = <<>> /\ input = <<>> /\ out = <<>>
      BY DEF Init
    <2> QED BY <2>1, CountEmpty
  <1>3. /\ Count(in, "item") = 0 /\ Count(in, "end") = 0 /\ Count(in, "window") = 0
        /\ Count(input, "item") = 0 /\ Count(input, "end") = 0 /\ Count(input, "fail") = 0
    BY <1>2 DEF Symbols, Events
  <1>4. Terminals = {} /\ Items = {} /\ Taken = {}
    BY <1>2 DEF Terminals, Items, Taken, Init
  <1>5. FinishInv /\ TerminalInv
    BY <1>4 DEF FinishInv, TerminalInv, Init, One, Finishers
  <1>6. LockInv
    BY DEF LockInv, Init, HandlerAssumption
  <1>7. OutInv
    <2>1. out \in Seq([kind : {"item", "end", "result", "error"}, seq : Nat])
      BY DEF Init
    <2> QED BY <1>2, <2>1 DEF OutInv, OutputInOrder
  <1>8. CreditInv
    <2>1. Cardinality(Taken) = 0 /\ Cardinality(Items) = 0
      BY <1>4, FS_EmptySet
    <2>2. credit = 0 /\ outputSequence = 0 /\ granted = 0
      BY DEF Init
    <2> QED BY <1>3, <2>1, <2>2 DEF CreditInv
  <1>9. ItemsInv
    <2>1. read = 0 /\ Handed = 0 /\ sent = 0 /\ pc = "start" /\ allowance = 0
      BY DEF Init, Handed
    <2>2. ItemsFirst(input)
      BY <1>2 DEF ItemsFirst
    <2> QED BY <1>3, <2>1, <2>2 DEF ItemsInv
  <1>10. ~Ending /\ ~Failed /\ ~inputClosed /\ ~lost /\ ~sawEnd
    BY <1>3 DEF Ending, Failed, Init
  <1>11. EndInv
    BY <1>3, <1>10 DEF EndInv, Init
  <1>12. HonestInv
    <2>1. /\ read = 0 /\ Handed = 0 /\ sent = 0 /\ pc = "start" /\ allowance = 0 /\ mayUse = 0
          /\ windows = 0 /\ cause = "none"
      BY DEF Init, Handed
    <2>2. NothingAfterEnd(in)
      BY <1>2 DEF NothingAfterEnd
    <2> QED BY <1>3, <1>10, <2>1, <2>2 DEF HonestInv, OrderInv, RoomInv, ReadInv
  <1> QED BY <1>1, <1>5, <1>6, <1>7, <1>8, <1>9, <1>11, <1>12 DEF CallInv

LEMMA CallStep ==
  ASSUME HandlerAssumption, CallInv, [Next]_vars
  PROVE  CallInv'
  <1>1. /\ Types /\ FinishInv /\ TerminalInv /\ LockInv /\ OutInv /\ CreditInv /\ InputInv
        /\ out \in Seq(AnyFrame)
    BY DEF CallInv, InputInv, OutInv, AnyFrame
  <1>2. Types' /\ FinishInv' /\ TerminalInv' /\ LockInv'
    BY <1>1, TypesStep, FinishStep, TerminalStep, LockStep
  <1>3. OutInv' /\ CreditInv' /\ InputInv'
    BY <1>1, OutStep, CreditStep, InputStep
  <1> QED BY <1>2, <1>3 DEF CallInv, InputInv

LEMMA SumsNatural ==
  ASSUME NEW a \in Nat, NEW b \in Nat, NEW c \in Nat, NEW d \in Nat, NEW n \in Nat,
         a + b + c + d <= n
  PROVE  a <= n
  OBVIOUS

LEMMA CallKeepsItsWord == ASSUME HandlerAssumption, CallInv PROVE HandlersAnswerOnce
  <1>1. /\ Types /\ FinishInv /\ TerminalInv /\ OutInv /\ CreditInv
        /\ ItemsInv /\ HonestInv /\ out \in Seq(AnyFrame)
    BY DEF CallInv, OutInv, AnyFrame
  <1>2. DOMAIN out = 1..Len(out) /\ Len(out) \in Nat /\ \A i \in DOMAIN out : out[i] \in AnyFrame
    BY <1>1, LenProperties, ElementOfSeq
  <1>3. Cardinality(Items) \in Nat /\ Cardinality(Taken) \in Nat
    <2>1. Items \subseteq 1..Len(out) /\ IsFiniteSet(1..Len(out))
      BY <1>2, FS_Interval DEF Items
    <2>2. Taken \subseteq Senders /\ IsFiniteSet(Senders)
      BY DEF Taken, HandlerAssumption
    <2> QED BY <2>1, <2>2, FS_Subset, FS_CardinalityType
  <1>4. Count(in, "window") \in Nat
    <2>1. in \in Seq(Symbols) /\ "window" \in Symbols
      BY <1>1 DEF Types, Symbols
    <2> QED BY <2>1, InCounts
  <1>5. /\ credit \in Nat /\ outputSequence \in Nat /\ granted \in Nat /\ granted <= MaxOut /\ MaxOut \in Nat
        /\ credit + Count(in, "window") + Cardinality(Taken) + outputSequence <= granted
        /\ Cardinality(Items) <= outputSequence
    BY <1>1 DEF Types, CreditInv, HandlerAssumption
  <1>6. credit <= MaxOut /\ outputSequence <= MaxOut /\ Cardinality(Items) <= granted
    BY <1>3, <1>4, <1>5
  <1>7. out \in Seq(Frames)
    <2>1. ASSUME NEW i \in DOMAIN out PROVE out[i] \in Frames
      <3>1. /\ out[i] = [kind |-> out[i].kind, seq |-> out[i].seq]
            /\ out[i].kind \in {"item", "end", "result", "error"} /\ out[i].seq \in Nat
        BY <1>2, <2>1 DEF AnyFrame
      <3>2. CASE out[i].kind = "item"
        <4>1. out[i].seq < outputSequence
          BY <1>1, <3>2 DEF OutInv
        <4>2. out[i].seq \in 0..MaxOut
          BY <1>5, <1>6, <3>1, <4>1
        <4> QED BY <3>1, <3>2, <4>2 DEF Frames
      <3>3. CASE out[i].kind # "item"
        <4>1. out[i].seq = 0
          BY <1>1, <3>3 DEF OutInv
        <4> QED BY <3>1, <3>3, <4>1 DEF Frames
      <3> QED BY <3>2, <3>3
    <2> QED BY <1>1, <1>2, <2>1
  <1>8. allowance \in 0..Window /\ read \in 0..MaxIn
    <2>n. /\ sent \in Nat /\ read \in Nat /\ allowance \in Nat /\ Window \in Nat
          /\ Count(in, "item") \in Nat /\ Count(input, "item") \in Nat
      BY <1>1, Numbers
    <2>1. sent <= MaxIn /\ MaxIn \in Nat
      BY <1>1 DEF Types, HandlerAssumption
    <2>2. Handed \in Nat
      BY DEF Handed
    <2>3. read <= sent
      BY <1>1, <2>n, <2>2 DEF ItemsInv
    <2>4. allowance <= Window
      <3>1. CASE pc = "start"
        BY <1>1, <2>n, <3>1 DEF ItemsInv
      <3>2. CASE pc # "start"
        <4>1. allowance + Count(input, "item") + Handed + (IF pc = "allow" THEN 1 ELSE 0) <= Window
          BY <1>1, <3>2 DEF ItemsInv
        <4>2. (IF pc = "allow" THEN 1 ELSE 0) \in Nat
          OBVIOUS
        <4> QED BY <2>n, <2>2, <4>1, <4>2, SumsNatural
      <3> QED BY <3>1, <3>2
    <2> QED BY <2>n, <2>1, <2>3, <2>4
  <1>9. inflight \in 0..1
    BY <1>1 DEF FinishInv, One
  <1>10. TypeOK
    <2>1. credit \in 0..MaxOut /\ outputSequence \in 0..MaxOut
      BY <1>5, <1>6
    <2> QED BY <1>1, <1>7, <1>8, <1>9, <2>1 DEF Types, TypeOK
  <1>11. OneTerminal
    <2>1. Cardinality(Terminals) <= 1
      <3>1. CASE Terminals = {}
        BY <3>1, FS_EmptySet
      <3>2. CASE Terminals # {}
        <4>1. PICK i \in Terminals : TRUE
          BY <3>2
        <4>2. Terminals = {i}
          BY <1>1, <4>1 DEF TerminalInv
        <4>3. Cardinality(Terminals) = 1
          BY <4>2, FS_Singleton
        <4> QED BY <4>3
      <3> QED BY <3>1, <3>2
    <2> QED BY <1>1, <2>1 DEF OneTerminal, TerminalInv
  <1>12. OutputInOrder /\ OutputWithinCredit
    BY <1>1, <1>6 DEF OutInv, OutputWithinCredit
  <1>13. HonestCallerAccepted /\ EndMeansAllRead
    BY <1>1 DEF HonestInv, ReadInv, HonestCallerAccepted, EndMeansAllRead
  <1> QED BY <1>10, <1>11, <1>12, <1>13 DEF HandlersAnswerOnce

(* However the handler's goroutines, the session's reader, the idle timer   *)
(* and the caller interleave: a call gets one terminal frame, its items go  *)
(* out in order, before stream.end and within the credit given, a caller    *)
(* that keeps to its credit is not failed for it, and a handler that sees   *)
(* the end of its input has read every item; for every window, number of    *)
(* sending goroutines and number of items.                                  *)
THEOREM HandlersCorrect == ASSUME HandlerAssumption PROVE Spec => []HandlersAnswerOnce
  <1>1. Init => CallInv
    BY CallInitially
  <1>2. CallInv /\ [Next]_vars => CallInv'
    BY CallStep
  <1>3. CallInv => HandlersAnswerOnce
    BY CallKeepsItsWord
  <1> QED BY <1>1, <1>2, <1>3, PTL DEF Spec

===============================================================================
