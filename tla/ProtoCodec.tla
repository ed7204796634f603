----------------------------- MODULE ProtoCodec -----------------------------
(***************************************************************************)
(* What create, internalBinaryRead and internalBinaryWrite of a generated  *)
(* message class do.  Every class has the same three methods; they differ  *)
(* only in the fields of ProtoMessages.                                    *)
(*                                                                         *)
(* A wire is a sequence of fields [no, wt, data].  The data of a varint is *)
(* its 64-bit pattern, of a string or of bytes the text, of a message the  *)
(* wire inside it, of a packed field the sequence of its varints.  Lengths *)
(* and byte positions are the reader's and the writer's, which are not     *)
(* part of the repository.  An int64 is a decimal string in the generated  *)
(* code (long_type_string) and the number it denotes here.  Widths are     *)
(* parameters: W32 and W64 stand for 32 and 64 bits, SafeBits for the 53   *)
(* bits a JavaScript number keeps.                                         *)
(*                                                                         *)
(* A method meets a message inside its message by calling the same method  *)
(* of the class of that field.  These calls are parameters; what they call *)
(* is defined below, which is what Recursion says.                         *)
(***************************************************************************)
EXTENDS ProtoMessages, Integers, SequencesExt

CONSTANTS W32, SafeBits, W64,
          Fraction,   \* stands for every number that is not an integer
          Undefined,  \* JavaScript's undefined: a message field that is not set
          WriteMessage(_, _),     \* internalBinaryWrite of the class of a field
          CanWrite(_, _),         \* whether that succeeds
          ReadMessage(_, _, _),   \* internalBinaryRead of the class of a field
          Meaning(_, _)           \* what the wire of a field means, see Denotes

ASSUME Widths == W32 \in Nat /\ SafeBits \in Nat /\ W64 \in Nat
                 /\ 1 < W32 /\ W32 < SafeBits /\ SafeBits < W64

\* The powers of two in use, by their laws.
ASSUME Powers ==
    /\ 2^0 = 1 /\ 2^1 = 2
    /\ \A w \in {W32, SafeBits, W64} : 2^(w - 1) \in Nat \ {0} /\ 2^w = 2 * 2^(w - 1)
    /\ 2^(W64 - W32) \in Nat \ {0} /\ 2^W64 = 2^(W64 - W32) * 2^W32
    /\ 2^SafeBits <= 2^W64

ScalarType == {"string", "bytes", "bool", "int32", "enum", "uint32", "int64", "uint64"}
IsMessage(T) == T \in DOMAIN MessageType
Fields(t) == DOMAIN MessageType[t]
Field(t, f) == MessageType[t][f]

Signed(w) == -(2^(w - 1)) .. 2^(w - 1) - 1
Unsigned(w) == 0 .. 2^w - 1
RangeOf(T) == CASE T = "int64" -> Signed(W64)
                [] T = "uint64" -> Unsigned(W64)
                [] T \in {"int32", "enum"} -> Signed(W32)
                [] T = "uint32" -> Unsigned(W32)

Default(F) == CASE F.repeat # "no" -> <<>>
                [] F.repeat = "no" /\ IsMessage(F.T) -> Undefined
                [] F.repeat = "no" /\ F.T = "bool" -> FALSE
                [] F.repeat = "no" /\ F.T \in {"string", "bytes"} -> ""
                [] OTHER -> 0

\* Fields a newer peer sent are kept beside the message.
UNKNOWN == "$unknown"

create(t, value) ==
    [f \in Fields(t) \cup {UNKNOWN} |->
        IF f = UNKNOWN THEN <<>>
        ELSE IF f \in DOMAIN value THEN value[f] ELSE Default(Field(t, f))]
-----------------------------------------------------------------------------
(* The scalars of the reader and the writer. *)

\* The writer refuses an integer out of range and what is no integer.
Accepts(T, v) == T \in {"string", "bytes", "bool"} \/ v \in RangeOf(T)

Varint(T, v) == IF T = "bool" THEN IF v THEN 1 ELSE 0 ELSE v % 2^W64

SignExtend(w, n) == IF n % 2^w >= 2^(w - 1) THEN (n % 2^w) - 2^w ELSE n % 2^w

\* The reader truncates a 32-bit field and reads any other bit as true.
Scalar(T, data) == CASE T = "int64" -> SignExtend(W64, data)
                     [] T = "uint64" -> data
                     [] T \in {"int32", "enum"} -> SignExtend(W32, data)
                     [] T = "uint32" -> data % 2^W32
                     [] T = "bool" -> data # 0
                     [] T \in {"string", "bytes"} -> data

Delimited(F) == F.T \in {"string", "bytes"} \/ IsMessage(F.T)
Entry(F, data) == [no |-> F.no, wt |-> IF Delimited(F) THEN "len" ELSE "varint",
                   data |-> data]
-----------------------------------------------------------------------------
Payload(F, v) == CASE IsMessage(F.T) -> WriteMessage(F.T, v)
                   [] F.T \in {"string", "bytes"} -> v
                   [] OTHER -> Varint(F.T, v)

WriteFieldSkippingEmpty(F, v) ==
    LET kept == SelectSeq(v, LAMBDA x : x # "")
    IN  CASE F.repeat = "unpacked" /\ F.T = "string" -> [i \in DOMAIN kept |-> Entry(F, Payload(F, kept[i]))]
          [] F.repeat = "unpacked" /\ F.T # "string" -> [i \in DOMAIN v |-> Entry(F, Payload(F, v[i]))]
          [] F.repeat = "packed" ->
                IF v = <<>> THEN <<>>
                ELSE <<[no |-> F.no, wt |-> "len", data |-> [i \in DOMAIN v |-> Payload(F, v[i])]]>>
          [] F.repeat = "no" -> IF v = Default(F) THEN <<>> ELSE <<Entry(F, Payload(F, v))>>

\* A repeated field is written element by element, a packed one at once, a
\* single one unless it has its default value.
WriteField(F, v) ==
    CASE F.repeat = "unpacked" -> [i \in DOMAIN v |-> Entry(F, Payload(F, v[i]))]
      [] F.repeat = "packed" ->
            IF v = <<>> THEN <<>>
            ELSE <<[no |-> F.no, wt |-> "len", data |-> [i \in DOMAIN v |-> Payload(F, v[i])]]>>
      [] F.repeat = "no" -> IF v = Default(F) THEN <<>> ELSE <<Entry(F, Payload(F, v))>>

Numbered(t, n) == {f \in Fields(t) : Field(t, f).no = n}
LastNo(t) == Max({0} \cup {Field(t, f).no : f \in Fields(t)})

\* Fields in the order of their numbers, then the unknown ones.
internalBinaryWrite(t, message) ==
    LET written(n) == IF Numbered(t, n) = {} THEN <<>>
                      ELSE LET f == CHOOSE f \in Numbered(t, n) : TRUE
                           IN  WriteField(Field(t, f), message[f])
    IN  FlattenSeq([n \in 1 .. LastNo(t) |-> written(n)]) \o message[UNKNOWN]

Writable(t, message) ==
    LET ok(T, v) == IF IsMessage(T) THEN v = Undefined \/ CanWrite(T, v) ELSE Accepts(T, v)
    IN  \A f \in Fields(t) :
            IF Field(t, f).repeat = "no" THEN ok(Field(t, f).T, message[f])
            ELSE \A i \in DOMAIN message[f] : ok(Field(t, f).T, message[f][i])
-----------------------------------------------------------------------------
ValueReplaced(F, data, target) ==
    IF IsMessage(F.T) THEN ReadMessage(F.T, data, create(F.T, NoFields))
    ELSE Scalar(F.T, data)

Value(F, data, target) ==
    IF IsMessage(F.T)
    THEN ReadMessage(F.T, data, IF target = Undefined THEN create(F.T, NoFields) ELSE target)
    ELSE Scalar(F.T, data)

\* One turn of the loop: a known field by its case, any other by the default.
ReadField(t, message, e) ==
    LET known == Numbered(t, e.no)
        f == CHOOSE f \in known : TRUE
        F == Field(t, f)
    IN  CASE known = {} -> [message EXCEPT ![UNKNOWN] = Append(@, e)]
          [] known # {} /\ F.repeat = "packed" /\ e.wt = "len" ->
                [message EXCEPT ![f] = @ \o [i \in DOMAIN e.data |-> Scalar(F.T, e.data[i])]]
          [] known # {} /\ F.repeat = "no" -> [message EXCEPT ![f] = Value(F, e.data, @)]
          [] OTHER -> [message EXCEPT ![f] = Append(@, Value(F, e.data, Undefined))]

internalBinaryRead(t, wire, target) ==
    LET after[i \in 0 .. Len(wire)] ==
            IF i = 0 THEN target ELSE ReadField(t, after[i - 1], wire[i])
    IN  after[Len(wire)]
-----------------------------------------------------------------------------
(* What a wire means, from the protocol buffers rules rather than from the *)
(* loop: a single field has its last value, a repeated one all its         *)
(* elements in order, and a message sent in pieces is all pieces together. *)

Occurring(wire, N) ==
    FlattenSeq([i \in DOMAIN wire |-> IF wire[i].no \in N THEN <<wire[i]>> ELSE <<>>])

Elements(F, e) == IF F.repeat = "packed" /\ e.wt = "len"
                  THEN [i \in DOMAIN e.data |-> Scalar(F.T, e.data[i])]
                  ELSE <<IF IsMessage(F.T) THEN Meaning(F.T, e.data) ELSE Scalar(F.T, e.data)>>

\* What the occurrences of a field come to.
FieldMeaning(F, occ) ==
    CASE F.repeat # "no" -> FlattenSeq([i \in DOMAIN occ |-> Elements(F, occ[i])])
      [] F.repeat = "no" /\ occ = <<>> -> Default(F)
      [] F.repeat = "no" /\ occ # <<>> /\ IsMessage(F.T) ->
            Meaning(F.T, FlattenSeq([i \in DOMAIN occ |-> occ[i].data]))
      [] OTHER -> Scalar(F.T, Last(occ).data)

Denotes(t, wire) ==
    LET known == {Field(t, f).no : f \in Fields(t)}
    IN  [f \in Fields(t) \cup {UNKNOWN} |->
            IF f = UNKNOWN THEN Occurring(wire, Nat \ known)
            ELSE FieldMeaning(Field(t, f), Occurring(wire, {Field(t, f).no}))]
-----------------------------------------------------------------------------
\* The parameters are the methods they stand for, message by message.
Recursion ==
    \A T \in DOMAIN MessageType : \A m, wire, target :
        /\ WriteMessage(T, m) = internalBinaryWrite(T, m)
        /\ CanWrite(T, m) = Writable(T, m)
        /\ ReadMessage(T, wire, target) = internalBinaryRead(T, wire, target)
        /\ Meaning(T, wire) = Denotes(T, wire)

\* No class has two fields of one number, and messages nest three deep.
Flat(t) == \A f \in Fields(t) : ~IsMessage(Field(t, f).T)
ASSUME Schema ==
    \A t \in DOMAIN MessageType :
        /\ t \notin ScalarType /\ UNKNOWN \notin Fields(t) /\ LastNo(t) \in Nat
        /\ \A f \in Fields(t) :
              LET F == Field(t, f)
              IN  /\ F.no \in 1 .. LastNo(t) /\ \A g \in Fields(t) : Field(t, g).no = F.no => g = f
                  /\ F.repeat \in {"no", "unpacked", "packed"}
                  /\ IsMessage(F.T) \/ F.T \in ScalarType
                  /\ F.repeat = "packed" => ~Delimited(F)
                  /\ IsMessage(F.T) =>
                        \A g \in Fields(F.T) : IsMessage(Field(F.T, g).T) => Flat(Field(F.T, g).T)
=============================================================================
