----------------------------- MODULE MCSdkCalls -----------------------------
(* An instance of SdkCalls for TLC.                                        *)
EXTENDS SdkCalls

\* What an application passes for a field, valid or not.
Argument(F) ==
    CASE F.repeat # "no" -> << <<>>, <<"s", "">> >>
      [] F.repeat = "no" /\ IsMessage(F.T) ->
            <<create(F.T, NoFields), create(F.T, [appId |-> "s", cluster |-> "s"])>>
      [] F.repeat = "no" /\ F.T \in {"string", "bytes"} -> <<"", "s">>
      [] F.repeat = "no" /\ F.T \in {"int32", "enum"} -> <<0, 1, 2^W32>>
      [] OTHER -> <<0, -1, Fraction>>

Fillings(I) ==
    LET choices == {c \in [Fields(I) -> 1 .. 3] :
                        \A f \in Fields(I) : c[f] \in DOMAIN Argument(Field(I, f))}
    IN  {[f \in Fields(I) |-> Argument(Field(I, f))[c[f]]] : c \in choices}

\* Requests, and the one message inside requests.
Requests == {api.I : api \in UNION {Api[service] : service \in DOMAIN Api}}
MCArguments ==
    [t \in DOMAIN MessageType |->
        CASE t \in Requests -> Fillings(t)
          [] t = "ConfigScope" -> Fillings(t)
          [] OTHER -> {}]

Bits == {0, 1, 2^SafeBits + 1, 2^W64 - 1}
Stranger == [no |-> 99, wt |-> "varint", data |-> 1]

RECURSIVE Answers(_)
Answers(t) ==
    LET data(F) == CASE IsMessage(F.T) -> {<<>>} \cup {<<e>> : e \in Answers(F.T)}
                     [] F.T \in {"string", "bytes"} -> {"", "s"}
                     [] F.T = "bool" -> {0, 1, 2^W64 - 1}
                     [] OTHER -> Bits
    IN  {Stranger} \cup
        UNION {LET F == Field(t, f) IN
               {Entry(F, d) : d \in data(F)} \cup
               (IF F.repeat = "packed" THEN {[no |-> F.no, wt |-> "len", data |-> <<0, 2^SafeBits + 1>>]}
                ELSE {}) : f \in Fields(t)}

MCAnswersOf == [t \in DOMAIN MessageType |-> Answers(t)]
=============================================================================
