----------------------------- MODULE Reflection ------------------------------
(***************************************************************************)
(* ReflectService of the Go SDK (src/meshcall-go/di.go) for one method of  *)
(* a service struct: which parameter is injected, which is the stream and  *)
(* which are fields of the request; which of the four shapes the method    *)
(* has; and how invoke puts the arguments of a call together.              *)
(***************************************************************************)
EXTENDS Naturals, Sequences, SequencesExt, FiniteSets

CONSTANTS
    MaxParams,     \* parameters after the context, a bound
    Names,         \* what the source calls a parameter: <<"x">>, Blank, Arg(1), ...
    Sources        \* what inspectMethodSource may find where the server runs

\* What is assumed of the constants, wherever they are given.
ReflectionAssumption == MaxParams \in Nat /\ Sources \subseteq {"own", "namesake", "none"}

Blank == <<"_">>
Arg(n) == <<"arg", n>>
Ctx == <<"ctx">>

VARIABLES
    params,     \* the parameters: [kind, name]
    outs,       \* the results: of {"error", "seq", "value"}
    opts,       \* the method options: of {"idempotent", "readonly", "destructive"}
    source,     \* what inspectMethodSource found: the method, one of its name, or nothing
    paramNames, \* the names that it read there
    entry,      \* the method entry, or a refusal
    args        \* what invoke fills each parameter with: [from, name]

vars == <<params, outs, opts, source, paramNames, entry, args>>

\* A type registered with WithDependencies, a *DuplexChannel, an iter.Seq2[T, error],
\* any other type and a pointer to one.
Kinds == {"injected", "duplex", "seq", "plain", "pointer"}

Lists(S, n) == UNION {[1..k -> S] : k \in 0..n}

\* Go gives no two parameters of a function one name, but for the blank one.
Apart(names) == \A i, j \in DOMAIN names : names[i] = names[j] /\ names[i] # Blank => i = j

\* The context comes first.
OwnNames == [k \in 1..(Len(params) + 1) |-> IF k = 1 THEN Ctx ELSE params[k - 1].name]

\* inspectMethodSource: of the method of this receiver, or of whatever function of
\* that name the file has last (the receiver of a generic service is not found), or
\* of none.  The names in the method's own source matter in the first case only.
Inspected ==
    CASE source = "own" -> {OwnNames}
      [] source = "namesake" -> {names \in Lists(Names, MaxParams + 1) : Apart(names)}
      [] source = "none" -> {<<>>}

Refused == [shape |-> "refused"]
Pending == [shape |-> "pending"]

Init ==
    /\ params \in Lists([kind : Kinds, name : Names], MaxParams)
    /\ Apart([i \in DOMAIN params |-> params[i].name])
    /\ outs \in Lists({"error", "seq", "value"}, 2)
    /\ opts \in SUBSET {"idempotent", "readonly", "destructive"}
    /\ source \in Sources /\ (source # "own" => \A i \in DOMAIN params : params[i].name = Blank)
    /\ paramNames \in Inspected
    /\ entry = Pending /\ args = <<>>

Of(kinds) == {i \in DOMAIN params : params[i].kind \in kinds}

Injected == Of({"injected"})
Business == Of({"plain", "pointer"})
Streams == Of({"duplex", "seq"})

\* A stream must come after the parameters that are not injected.
LastOrdinary(i) == \A j \in DOMAIN params \ Injected : j <= i

Duplex == Of({"duplex"}) # {}

Shape ==
    IF Duplex THEN "duplex"
    ELSE IF Streams # {} THEN "client_stream"
    ELSE IF outs # <<>> /\ outs[1] = "seq" THEN "server_stream"
    ELSE "unary"

\* (Resp, error) or Resp: a lone error is no response.
Responds == (Len(outs) = 2 /\ outs[2] = "error") \/ (Len(outs) = 1 /\ outs[1] # "error")

ReturnsFit ==
    CASE Shape = "duplex" -> outs \in {<<>>, <<"error">>}
      [] Shape = "client_stream" -> Responds
      [] Shape = "server_stream" -> Len(outs) = 1 \/ (Len(outs) = 2 /\ outs[2] = "error")
      [] OTHER -> Responds

\* Service.add; a read-only method is idempotent.
OptionsFit ==
    /\ ~({"readonly", "destructive"} \subseteq opts)
    /\ Shape = "duplex" => opts \cap {"idempotent", "readonly"} = {}

\* The name of a parameter on the wire: the one in the source, or arg and the number
\* of request parameters before it.
Before(i) == Cardinality({j \in Business : j < i})

\* Behind the receiver and the context; of paramNames, behind the context alone.
ArgIdx(i) == i + 1

SourceName(i) ==
    LET paramPos == ArgIdx(i) - 1 IN     \* from 0
    IF paramPos < Len(paramNames) THEN paramNames[paramPos + 1] ELSE Blank

Number(i) == Before(i)

WireName(i) ==
    IF SourceName(i) # Blank THEN SourceName(i) ELSE Arg(Number(i))

Reflect ==
    /\ entry = Pending
    /\ entry' = IF (\A i \in Streams : LastOrdinary(i)) /\ ReturnsFit /\ OptionsFit
                THEN [shape |-> Shape, names |-> [i \in Business |-> WireName(i)],
                      required |-> {WireName(i) : i \in Of({"plain"})}]
                ELSE Refused
    /\ UNCHANGED <<params, outs, opts, source, paramNames, args>>

\* The fields of the request, one for each name.
Fields == {entry.names[i] : i \in Business}

Argument(i, present) ==
    IF entry.names[i] \in present THEN [from |-> "field", name |-> entry.names[i]]
    ELSE [from |-> "zero", name |-> Blank]

\* invoke: the validated request has every required field and some of the others.  An
\* argument is the field of its name, a zero value, an injected value or the stream.
Invoke(present) ==
    /\ entry.shape \notin {"pending", "refused"} /\ args = <<>>
    /\ entry.required \subseteq present
    /\ args' = [i \in DOMAIN params |->
                  CASE i \in Injected -> [from |-> "injected", name |-> Blank]
                    [] i \in Streams -> [from |-> "stream", name |-> Blank]
                    [] OTHER -> Argument(i, present)]
    /\ UNCHANGED <<params, outs, opts, source, paramNames, entry>>

Next ==
    \/ Reflect
    \/ entry.shape \notin {"pending", "refused"} /\ \E present \in SUBSET Fields : Invoke(present)

Spec == Init /\ [][Next]_vars

-------------------------------------------------------------------------------
TypeOK ==
    /\ entry.shape \in {"pending", "refused", "unary", "server_stream", "client_stream", "duplex"}
    /\ args # <<>> =>
         DOMAIN args = DOMAIN params
         /\ \A i \in DOMAIN args : args[i].from \in {"injected", "stream", "field", "zero"}

Accepted == entry.shape \notin {"pending", "refused"}

(* The shapes as the README describes them, stated from the trailing       *)
(* ordinary parameter and the results alone: a method is taken for exactly *)
(* one of them, and whatever fits none is refused.                         *)
Ordinary == DOMAIN params \ Injected

Trailing == IF Ordinary = {} THEN "none" ELSE params[Max(Ordinary)].kind

Documented ==
    [unary         |-> Streams = {} /\ outs \in {<<"value">>, <<"value", "error">>, <<"error", "error">>},
     server_stream |-> Streams = {} /\ outs \in {<<"seq">>, <<"seq", "error">>},
     client_stream |-> Trailing = "seq" /\ Cardinality(Streams) = 1
                       /\ outs \in {<<r>> : r \in {"value", "seq"}} \cup {<<r, "error">> : r \in {"value", "seq", "error"}},
     duplex        |-> Trailing = "duplex" /\ Cardinality(Streams) = 1 /\ outs \in {<<>>, <<"error">>}]

ShapeAsDocumented ==
    /\ Accepted => \A s \in DOMAIN Documented : Documented[s] <=> s = entry.shape
    /\ entry = Refused /\ OptionsFit => \A s \in DOMAIN Documented : ~Documented[s]

(* Where its own source was found, every request parameter receives the    *)
(* field that carries its own name, never another's; only one that may be  *)
(* left out, a pointer, can have its zero value instead.                   *)
ArgumentsOwnField ==
    args # <<>> /\ source = "own" =>
        \A i \in Business : params[i].name # Blank =>
            \/ args[i] = [from |-> "field", name |-> params[i].name]
            \/ args[i].from = "zero" /\ params[i].kind = "pointer"

(* Whosever names were read, two parameters never share a field, unless    *)
(* one of the names is of the form argN.                                   *)
UnnamedStayApart ==
    Accepted /\ (\A i \in Business, n \in 0..MaxParams : SourceName(i) # Arg(n)) =>
        IsInjective(entry.names)

(* The README's "Ordinary parameters become request properties in          *)
(* declaration order" taken at its word: one property for each.            *)
OnePropertyEach == Accepted => Cardinality(Fields) = Cardinality(Business)

(* The README's "keeping the Go parameter names on the wire" taken at its  *)
(* word.                                                                   *)
NamesKept == Accepted => \A i \in Business : params[i].name # Blank => entry.names[i] = params[i].name
===============================================================================
