----------------------------- MODULE ServerCall ------------------------------
(***************************************************************************)
(* One call on the Go SDK's server (src/meshcall-go/server.go, serverCall, *)
(* with the handler shapes of service.go and di.go): the goroutine of the  *)
(* handler, the goroutines it sends from, the session's reader and the     *)
(* idle timer meet on the call's input queue, its credit windows, its      *)
(* output lock and the one terminal frame.                                 *)
(***************************************************************************)
EXTENDS Integers, Sequences, FiniteSets

CONSTANTS
    Shapes,     \* of {"unary", "server", "client", "duplex"}
    Senders,    \* goroutines that call send, the handler's own among them
    Window,     \* initialStreamCredit
    MaxIn,      \* items the caller sends, a bound
    MaxOut      \* items the handler sends and the caller grants, a bound

\* What is assumed of the constants, wherever they are given.
HandlerAssumption ==
    /\ Window \in Nat \ {0} /\ {MaxIn, MaxOut} \subseteq Nat
    /\ IsFiniteSet(Senders) /\ Senders \cap {"free", "run"} = {}

VARIABLES
    shape, honest,     \* the method, and whether the caller keeps to the protocol
    lost,              \* the connection is gone
    in,                \* frames on their way from the caller
    out,               \* frames the call has sent, windows apart
    windows,           \* windows on their way to the caller
    sent, ended, over, mayUse,   \* the caller: items sent, stream.end sent, call.cancel sent,
                       \* and the credit it knows of
    granted,           \* output credit the caller has given
    pc,                \* of serverCall.run
    answer,            \* what run is going to finish with
    reader,            \* of the session's reader, inside serverCall.receive
    fin,               \* of call.finish, for each of its callers
    cause,             \* context.Cause(call.ctx)
    present, inflight, \* the call in session.calls, its part of Server.inflight
    credit, creditClosed,
    input, inputClosed, allowance, inputSequence,
    read, sawEnd,      \* items the handler has read; whether it saw the end of input
    idle,              \* the idle timer is armed
    sp, outputMu, outputSequence, outputClosed, terminal

caller == <<shape, honest, sent, ended, over, mayUse, granted>>
wires  == <<lost, in, out, windows>>
inp    == <<input, inputClosed, allowance, inputSequence, read, sawEnd, idle>>
outp   == <<credit, creditClosed, sp, outputMu, outputSequence, outputClosed>>
life   == <<cause, present, inflight, terminal, fin>>
vars   == <<caller, wires, pc, answer, reader, life, inp, outp>>

HasInput == shape \in {"client", "duplex"}
HasOutput == shape \in {"server", "duplex"}
Finishers == {"run", "reader", "timer"}
Frames == [kind : {"item"}, seq : 0..MaxOut] \cup [kind : {"end", "result", "error"}, seq : {0}]
Frame(k, n) == [kind |-> k, seq |-> n]

TypeOK ==
    /\ lost \in BOOLEAN /\ out \in Seq(Frames) /\ windows \in Nat
    /\ in \in Seq({"item", "end", "cancel", "window"})
    /\ sent \in 0..MaxIn /\ mayUse \in Int /\ granted \in 0..MaxOut
    /\ pc \in {"start", "grant", "handler", "allow", "window", "closing", "closed", "finish"}
    /\ answer \in {"result", "error"} /\ reader \in {"read", "arm", "push", "pushEnd", "gone"}
    /\ fin \in [Finishers -> {"no", "cas", "send", "cleanup", "done"}]
    /\ cause \in {"none", "cancelled", "deadline", "idle", "lost", "protocol", "output", "complete"}
    /\ inflight \in 0..1 /\ present \in BOOLEAN
    /\ credit \in 0..MaxOut /\ input \in Seq({"item", "end", "fail"})
    /\ allowance \in 0..Window /\ read \in 0..MaxIn
    /\ sp \in [Senders -> {"none", "acquire", "lock", "send"}]
    /\ outputMu \in Senders \cup {"free", "run"} /\ outputSequence \in 0..MaxOut

\* session.open has made the call and counted it.
Init ==
    /\ shape \in Shapes /\ honest \in BOOLEAN
    /\ lost = FALSE /\ in = <<>> /\ out = <<>> /\ windows = 0
    /\ sent = 0 /\ ended = FALSE /\ over = FALSE /\ mayUse = 0 /\ granted = 0
    /\ pc = "start" /\ answer = "result" /\ reader = "read" /\ fin = [a \in Finishers |-> "no"]
    /\ cause = "none" /\ present = TRUE /\ inflight = 1
    /\ credit = 0 /\ creditClosed = FALSE
    /\ input = <<>> /\ inputClosed = FALSE /\ allowance = 0 /\ inputSequence = 0
    /\ read = 0 /\ sawEnd = FALSE /\ idle = FALSE
    /\ sp = [s \in Senders |-> "none"] /\ outputMu = "free" /\ outputSequence = 0
    /\ outputClosed = FALSE /\ terminal = FALSE

-------------------------------------------------------------------------------
(* The caller.  An honest one sends items within its credit and nothing    *)
(* after stream.end; one that is not sends an item whenever it likes.      *)

Put(f) == in' = Append(in, f)

CallerItem ==
    /\ ~lost /\ ~over /\ sent < MaxIn /\ (honest => HasInput /\ mayUse > 0 /\ ~ended)
    /\ Put("item") /\ sent' = sent + 1 /\ mayUse' = mayUse - 1
    /\ UNCHANGED <<shape, honest, ended, over, granted, lost, out, windows, pc, answer, reader, life, inp, outp>>

CallerEnd ==
    /\ ~lost /\ ~over /\ ~ended /\ HasInput
    /\ Put("end") /\ ended' = TRUE
    /\ UNCHANGED <<shape, honest, sent, over, mayUse, granted, lost, out, windows, pc, answer, reader, life, inp, outp>>

CallerCancel ==
    /\ ~lost /\ ~over
    /\ Put("cancel") /\ over' = TRUE
    /\ UNCHANGED <<shape, honest, sent, ended, mayUse, granted, lost, out, windows, pc, answer, reader, life, inp, outp>>

CallerGrants ==
    /\ ~lost /\ ~over /\ granted < MaxOut /\ HasOutput
    /\ Put("window") /\ granted' = granted + 1
    /\ UNCHANGED <<shape, honest, sent, ended, over, mayUse, lost, out, windows, pc, answer, reader, life, inp, outp>>

CallerSeesWindow ==
    /\ windows > 0
    /\ mayUse' = mayUse + windows /\ windows' = 0
    /\ UNCHANGED <<shape, honest, sent, ended, over, granted, lost, in, out, pc, answer, reader, life, inp, outp>>

ConnectionLost ==
    /\ ~lost
    /\ lost' = TRUE /\ in' = <<>> /\ windows' = 0
    /\ UNCHANGED <<caller, out, pc, answer, reader, life, inp, outp>>

-------------------------------------------------------------------------------
(* What the parts of the runtime do to the call.                           *)

Cancel(e) == cause' = IF cause = "none" THEN e ELSE cause

\* pushInput; what is queued after an end or a failure is never read.
Push(e) ==
    input' = IF input # <<>> /\ input[Len(input)] # "item" THEN input ELSE Append(input, e)

\* call.abort: the context, the output credit and the input queue.
Abort(e) ==
    /\ Cancel(e) /\ creditClosed' = TRUE
    /\ Push("fail") /\ inputClosed' = TRUE

Emit(f) == out' = IF lost THEN out ELSE Append(out, f)

FirstToFinish == ~terminal

\* call.finish: the swap, the frame, then the cleanup.
FinishSwap(a) ==
    /\ fin[a] = "cas"
    /\ IF FirstToFinish THEN terminal' = TRUE /\ fin' = [fin EXCEPT ![a] = "send"]
                        ELSE terminal' = terminal /\ fin' = [fin EXCEPT ![a] = "done"]
    /\ UNCHANGED <<caller, wires, pc, answer, reader, cause, present, inflight, inp, outp>>

\* A result too large for a frame is replaced by an error.
FinishSend(a) ==
    /\ fin[a] = "send"
    /\ \E k \in IF a = "run" THEN {answer, "error"} ELSE {"error"} : Emit(Frame(k, 0))
    /\ fin' = [fin EXCEPT ![a] = "cleanup"]
    /\ UNCHANGED <<caller, lost, in, windows, pc, answer, reader, cause, present, inflight, terminal, inp, outp>>

FinishCleanup(a) ==
    /\ fin[a] = "cleanup"
    /\ Cancel("complete") /\ creditClosed' = TRUE /\ idle' = FALSE
    /\ present' = FALSE /\ inflight' = inflight - 1
    /\ fin' = [fin EXCEPT ![a] = "done"]
    /\ UNCHANGED <<caller, wires, pc, answer, reader, terminal,
                   input, inputClosed, allowance, inputSequence, read, sawEnd,
                   credit, sp, outputMu, outputSequence, outputClosed>>

\* The deadline of call.open cancels the context and nothing else.
DeadlinePasses ==
    /\ cause = "none"
    /\ cause' = "deadline"
    /\ UNCHANGED <<caller, wires, pc, answer, reader, present, inflight, terminal, fin, inp, outp>>

\* armIdle; a timer that ran is replaced, a closed input arms none.
ArmIdle == idle' = ~inputClosed

IdleFires ==
    /\ idle /\ fin["timer"] = "no"
    /\ Abort("idle") /\ idle' = FALSE /\ fin' = [fin EXCEPT !["timer"] = "cas"]
    /\ UNCHANGED <<caller, wires, pc, answer, reader, present, inflight, terminal,
                   allowance, inputSequence, read, sawEnd, credit, sp, outputMu, outputSequence, outputClosed>>

-------------------------------------------------------------------------------
(* The session's reader: session.handle and serverCall.receive.            *)

Reads(f) == reader = "read" /\ in # <<>> /\ Head(in) = f

\* session.handle finds no call under that id any more.
ReadStray ==
    /\ reader = "read" /\ in # <<>> /\ ~present
    /\ in' = Tail(in)
    /\ UNCHANGED <<caller, lost, out, windows, pc, answer, reader, life, inp, outp>>

ReadWindow ==
    /\ Reads("window") /\ present
    /\ in' = Tail(in) /\ credit' = credit + 1
    /\ UNCHANGED <<caller, lost, out, windows, pc, answer, reader, life, inp,
                   creditClosed, sp, outputMu, outputSequence, outputClosed>>

ReaderAborts(e) ==
    /\ in' = Tail(in) /\ Abort(e) /\ fin' = [fin EXCEPT !["reader"] = IF @ = "done" THEN @ ELSE "cas"]
    /\ UNCHANGED <<caller, lost, out, windows, pc, answer, reader, present, inflight, terminal,
                   allowance, inputSequence, read, sawEnd, idle, credit, sp, outputMu, outputSequence, outputClosed>>

ReadCancel == Reads("cancel") /\ present /\ ReaderAborts("cancelled")

ItemOK == HasInput /\ ~inputClosed /\ allowance > 0

Spent == allowance - 1

ReadItem ==
    /\ Reads("item") /\ present /\ ItemOK
    /\ in' = Tail(in) /\ reader' = "arm"
    /\ allowance' = Spent /\ inputSequence' = inputSequence + 1
    /\ UNCHANGED <<caller, lost, out, windows, pc, answer, life, input, inputClosed, read, sawEnd, idle, outp>>

\* An item or an end that the call may not receive (protocolError).
ReadWrong ==
    /\ present /\ \/ Reads("item") /\ ~ItemOK
                  \/ Reads("end") /\ inputClosed
    /\ ReaderAborts("protocol")

ReadArm ==
    /\ reader = "arm"
    /\ reader' = "push" /\ ArmIdle
    /\ UNCHANGED <<caller, wires, pc, answer, life, input, inputClosed, allowance, inputSequence, read, sawEnd, outp>>

ReadEnd ==
    /\ Reads("end") /\ present /\ ~inputClosed
    /\ in' = Tail(in) /\ reader' = "pushEnd" /\ inputClosed' = TRUE /\ idle' = FALSE
    /\ UNCHANGED <<caller, lost, out, windows, pc, answer, life, input, allowance, inputSequence, read, sawEnd, outp>>

ReadPush ==
    /\ reader \in {"push", "pushEnd"}
    /\ reader' = "read" /\ Push(IF reader = "push" THEN "item" ELSE "end")
    /\ UNCHANGED <<caller, wires, pc, answer, life, inputClosed, allowance, inputSequence, read, sawEnd, idle, outp>>

\* session.serve ends: its calls are aborted, not finished.
ReadLost ==
    /\ reader = "read" /\ lost
    /\ reader' = "gone"
    /\ IF present THEN Abort("lost") ELSE UNCHANGED <<cause, creditClosed, input, inputClosed>>
    /\ UNCHANGED <<caller, wires, pc, answer, present, inflight, terminal, fin,
                   allowance, inputSequence, read, sawEnd, idle, credit, sp, outputMu, outputSequence, outputClosed>>

-------------------------------------------------------------------------------
(* serverCall.run and the handler.                                         *)

InitialAllowance == Window

Start ==
    /\ pc = "start"
    /\ pc' = IF HasInput THEN "grant" ELSE "handler"
    /\ allowance' = IF HasInput THEN InitialAllowance ELSE 0
    /\ UNCHANGED <<caller, wires, answer, reader, life, input, inputClosed, inputSequence, read, sawEnd, idle, outp>>

Grant ==
    /\ pc = "grant"
    /\ pc' = "handler" /\ windows' = (IF lost THEN 0 ELSE windows + Window) /\ ArmIdle
    /\ UNCHANGED <<caller, lost, in, out, answer, reader, life,
                   input, inputClosed, allowance, inputSequence, read, sawEnd, outp>>

NextEvent == Head(input)

\* nextInput: an item; while the input is open the caller is granted another.
RecvItem ==
    /\ pc = "handler" /\ HasInput /\ ~sawEnd /\ input # <<>> /\ NextEvent = "item"
    /\ input' = Tail(input) /\ read' = read + 1
    /\ pc' = IF inputClosed THEN "handler" ELSE "allow"
    /\ UNCHANGED <<caller, wires, answer, reader, life, inputClosed, allowance, inputSequence, sawEnd, idle, outp>>

RecvAllows ==
    /\ pc = "allow"
    /\ allowance' = allowance + 1 /\ pc' = "window"
    /\ UNCHANGED <<caller, wires, answer, reader, life, input, inputClosed, inputSequence, read, sawEnd, idle, outp>>

RecvWindow ==
    /\ pc = "window"
    /\ windows' = (IF lost THEN 0 ELSE windows + 1) /\ pc' = "handler"
    /\ UNCHANGED <<caller, lost, in, out, answer, reader, life, inp, outp>>

\* nextInput: the end stays queued; the handler stops reading and returns its result.
RecvEnd ==
    /\ pc = "handler" /\ HasInput /\ ~sawEnd /\ input # <<>> /\ NextEvent = "end"
    /\ sawEnd' = TRUE
    /\ UNCHANGED <<caller, wires, pc, answer, reader, life,
                   input, inputClosed, allowance, inputSequence, read, idle, outp>>

\* nextInput fails: with what ended the call, or with the context's cause.
InputFails ==
    \/ input # <<>> /\ NextEvent = "fail"
    \/ input = <<>> /\ cause # "none"

\* method.invoke returns, run takes its error or the context's cause, and streams
\* that went well are closed first.
Return(e) ==
    /\ answer' = IF e = "ok" /\ cause = "none" THEN "result" ELSE "error"
    /\ pc' = IF answer' = "result" /\ HasOutput THEN "closing" ELSE "finish"
    /\ fin' = IF pc' = "finish" THEN [fin EXCEPT !["run"] = "cas"] ELSE fin
    /\ UNCHANGED <<caller, wires, reader, cause, present, inflight, terminal, inp, outp>>

\* The handler stops when its input has ended or failed, or its context has.
HandlerStops ==
    /\ pc = "handler"
    /\ \/ sawEnd /\ Return("ok")
       \/ HasInput /\ ~sawEnd /\ InputFails /\ Return("error")
       \/ ~HasInput /\ cause # "none" /\ Return("error")

\* It may return at any time, also because the request or an item does not decode,
\* an interceptor refuses the call or it panics.
HandlerReturns == pc = "handler" /\ \E e \in {"ok", "error"} : Return(e)

\* closeOutput.
CloseOutput ==
    /\ pc = "closing" /\ outputMu = "free"
    /\ IF outputClosed \/ terminal
       THEN pc' = "finish" /\ fin' = [fin EXCEPT !["run"] = "cas"] /\ UNCHANGED <<outputMu, outputClosed>>
       ELSE pc' = "closed" /\ outputMu' = "run" /\ outputClosed' = TRUE /\ UNCHANGED fin
    /\ UNCHANGED <<caller, wires, answer, reader, cause, present, inflight, terminal, inp,
                   credit, creditClosed, sp, outputSequence>>

\* Channel.CloseSend, in one step: the handler of a duplex call closes its output and reads on.
CloseSend ==
    /\ pc = "handler" /\ shape = "duplex" /\ outputMu = "free" /\ ~outputClosed /\ ~terminal
    /\ outputClosed' = TRUE /\ Emit(Frame("end", 0))
    /\ UNCHANGED <<caller, lost, in, windows, pc, answer, reader, life, inp,
                   credit, creditClosed, sp, outputMu, outputSequence>>

SendEnd ==
    /\ pc = "closed"
    /\ Emit(Frame("end", 0)) /\ outputMu' = "free" /\ pc' = "finish"
    /\ fin' = [fin EXCEPT !["run"] = "cas"] /\ answer' = IF lost THEN "error" ELSE answer
    /\ UNCHANGED <<caller, lost, in, windows, reader, cause, present, inflight, terminal, inp,
                   credit, creditClosed, sp, outputSequence, outputClosed>>

-------------------------------------------------------------------------------
(* sendOutput, from any goroutine of the handler.                          *)

SendBegins(s) ==
    /\ pc = "handler" /\ HasOutput /\ sp[s] = "none" /\ outputSequence < MaxOut
    /\ sp' = [sp EXCEPT ![s] = "acquire"]
    /\ UNCHANGED <<caller, wires, pc, answer, reader, life, inp,
                   credit, creditClosed, outputMu, outputSequence, outputClosed>>

\* The item does not fit its schema, or its frame is too large: the call is cancelled.
SendUnfit(s) ==
    /\ sp[s] \in {"acquire", "send"} /\ Cancel("output")
    /\ sp' = [sp EXCEPT ![s] = "none"]
    /\ IF sp[s] = "send" THEN outputMu' = "free" /\ outputSequence' = outputSequence + 1
                         ELSE UNCHANGED <<outputMu, outputSequence>>
    /\ UNCHANGED <<caller, wires, pc, answer, reader, present, inflight, terminal, fin, inp,
                   credit, creditClosed, outputClosed>>

HasCredit == credit > 0

SendAcquires(s) ==
    /\ sp[s] = "acquire" /\ ~creditClosed /\ HasCredit
    /\ credit' = (IF credit > 0 THEN credit - 1 ELSE 0) /\ sp' = [sp EXCEPT ![s] = "lock"]
    /\ UNCHANGED <<caller, wires, pc, answer, reader, life, inp,
                   creditClosed, outputMu, outputSequence, outputClosed>>

SendFails(s) ==
    /\ \/ sp[s] = "acquire" /\ (creditClosed \/ (credit = 0 /\ cause # "none"))
       \/ sp[s] = "lock" /\ outputMu = "free" /\ (outputClosed \/ terminal)
    /\ sp' = [sp EXCEPT ![s] = "none"]
    /\ UNCHANGED <<caller, wires, pc, answer, reader, life, inp,
                   credit, creditClosed, outputMu, outputSequence, outputClosed>>

\* Mutant: the output is not locked while an item is sent.
NoLock == TRUE

LockFree == outputMu = "free"

SendLocks(s) ==
    /\ sp[s] = "lock" /\ LockFree /\ ~outputClosed /\ ~terminal
    /\ outputMu' = s /\ sp' = [sp EXCEPT ![s] = "send"]
    /\ UNCHANGED <<caller, wires, pc, answer, reader, life, inp,
                   credit, creditClosed, outputSequence, outputClosed>>

SendItem(s) ==
    /\ sp[s] = "send"
    /\ Emit(Frame("item", outputSequence)) /\ outputSequence' = outputSequence + 1
    /\ outputMu' = "free" /\ sp' = [sp EXCEPT ![s] = "none"]
    /\ UNCHANGED <<caller, lost, in, windows, pc, answer, reader, life, inp, credit, creditClosed, outputClosed>>

-------------------------------------------------------------------------------
CallerSteps == CallerItem \/ CallerEnd \/ CallerCancel \/ CallerGrants \/ CallerSeesWindow
ReadFrame == ReadStray \/ ReadWindow \/ ReadCancel \/ ReadItem \/ ReadWrong \/ ReadEnd
ReadStep == ReadFrame \/ ReadArm \/ ReadPush \/ ReadLost
Finish(a) == FinishSwap(a) \/ FinishSend(a) \/ FinishCleanup(a)
RunSteps == Start \/ Grant \/ RecvAllows \/ RecvWindow \/ CloseOutput \/ SendEnd
HandlerSteps == RecvItem \/ RecvEnd \/ HandlerStops
SendSteps(s) == SendAcquires(s) \/ SendFails(s) \/ SendLocks(s) \/ SendItem(s)

Next ==
    \/ CallerSteps \/ ConnectionLost \/ DeadlinePasses \/ IdleFires
    \/ ReadStep /\ fin["reader"] \in {"no", "done"}
    \/ RunSteps \/ HandlerSteps \/ HandlerReturns \/ CloseSend
    \/ \E a \in Finishers : Finish(a)
    \/ \E s \in Senders : SendBegins(s) \/ SendUnfit(s) \/ SendSteps(s)

Spec == Init /\ [][Next]_vars

\* Goroutines of the runtime go on.
RuntimeFairness ==
    /\ WF_vars(ReadStep /\ fin["reader"] \in {"no", "done"}) /\ WF_vars(RunSteps)
    /\ \A a \in Finishers : WF_vars(Finish(a))
    /\ \A s \in Senders : WF_vars(SendSteps(s))

\* The handler reads its input, or waits for its context.
FairSpec == Spec /\ RuntimeFairness /\ WF_vars(HandlerSteps)

\* The handler does as it likes.
StubbornSpec == Spec /\ RuntimeFairness

-------------------------------------------------------------------------------
Items == {i \in DOMAIN out : out[i].kind = "item"}
Terminals == {i \in DOMAIN out : out[i].kind \in {"result", "error"}}

(* However the handler's return, a cancel, a protocol error and the idle   *)
(* timer meet, the caller gets one terminal frame, and a call that was     *)
(* cleaned up on a live connection has sent it.                            *)
OneTerminal == Cardinality(Terminals) <= 1 /\ (~present /\ ~lost => Terminals # {})

(* Items from several goroutines go out in the order of their numbers,     *)
(* with no gap but for one that was too large, and none after stream.end.  *)
OutputInOrder ==
    \A i, j \in DOMAIN out :
        i < j /\ out[j].kind = "item" =>
            /\ out[i].kind # "end"
            /\ out[i].kind = "item" => out[i].seq < out[j].seq

(* The call never sends more than the caller has room for.                 *)
OutputWithinCredit == Cardinality(Items) <= granted

(* A caller that keeps to its credit is never failed for it.               *)
HonestCallerAccepted == honest => cause # "protocol"

(* A handler that sees the end of its input has read every item before it. *)
EndMeansAllRead == sawEnd /\ honest => read = sent

(* What the runtime promises caller and handler, however the handler's     *)
(* goroutines, the reader and the idle timer interleave.                   *)
HandlersAnswerOnce ==
    /\ TypeOK /\ OneTerminal /\ OutputInOrder /\ OutputWithinCredit
    /\ HonestCallerAccepted /\ EndMeansAllRead

(* When a call is over for any reason, it is finished and no goroutine of  *)
(* it waits for input or for credit any more.                              *)
Released == (cause # "none" \/ lost) ~> (~present /\ \A s \in Senders : sp[s] = "none")

(* docs/protocol.md's table taken at its word: at timeout_ms the server    *)
(* "cancels the handler and sends call.error deadline_exceeded".           *)
DeadlineAnswered == cause = "deadline" ~> terminal
===============================================================================
