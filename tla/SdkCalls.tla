------------------------------ MODULE SdkCalls ------------------------------
(***************************************************************************)
(* One unary call of the TypeScript SDK (sdk/typescript/src/index.ts),     *)
(* from the arguments of the application to the settled promise: the       *)
(* request is created, written by the codec, sent with the credentials and *)
(* the deadline of the client, and executed by a server that answers with  *)
(* any wire, fails, or is too late.  The gRPC transport and the server are *)
(* not part of this code: they may execute each transmission once, also    *)
(* after the caller has given up.                                          *)
(*                                                                         *)
(* The methods of HealthService and those that write the configuration     *)
(* have no wrapper in the SDK and are called through their stubs.          *)
(* streamRead is in SdkStream.                                             *)
(***************************************************************************)
EXTENDS ProtoCodec

CONSTANTS Codes,      \* gRPC status codes a server may answer with
          Null,       \* JavaScript's null
          MaxFields,  \* bound: fields in the wire of an answer
          Arguments,  \* message -> the values an application fills it with
          AnswersOf   \* message -> the fields a server, also a newer one, may put into it

VARIABLES client,    \* the options of the PGAppClient
          call,      \* the call and what became of it
          transit,   \* transmissions of its request on their way
          server     \* [executed: how often it ran, request: what it is handling]

vars == <<client, call, transit, server>>
-----------------------------------------------------------------------------
(* Numbers.  The SDK takes and returns JavaScript numbers where the        *)
(* generated code has decimal strings.  String(n) denotes n itself, and    *)
(* for what is no integer a text that the writer refuses.                  *)

AbsOf(n) == IF n < 0 THEN -n ELSE n

\* The integers that a number represents exactly: SafeBits significant bits.
Doubles == {n \in -(2^W64) .. 2^W64 :
                \E k \in 0 .. W64 : n % 2^k = 0 /\ AbsOf(n) \div 2^k < 2^SafeBits}

\* Number(text): the nearest one, of two the rounder.
Number(n) ==
    LET nearer(d, e) == \/ AbsOf(d - n) < AbsOf(e - n)
                        \/ /\ AbsOf(d - n) = AbsOf(e - n)
                           /\ \E k \in 0 .. W64 : d % 2^k = 0 /\ e % 2^k # 0
    IN  CHOOSE d \in Doubles : \A e \in Doubles \ {d} : nearer(d, e)
-----------------------------------------------------------------------------
(* The wrappers: the stub, the class of the request, the fields that are   *)
(* passed to its create, and what is made of the response.                 *)

Whole == [as |-> "response", of |-> ""]
Its(f) == [as |-> "field", of |-> f]
IfHit(f) == [as |-> "nullable", of |-> f]
NumberOf(f) == [as |-> "number", of |-> f]
NumbersOf(f) == [as |-> "numbers", of |-> f]

Sdk(stub, I, passes, result) ==
    [stub |-> stub, I |-> I, passes |-> passes, result |-> result]

KEY == {"namespace", "key"}
STORE == KEY \cup {"value", "ttlSeconds"}
ADD == KEY \cup {"delta", "ttlSeconds"}

CacheClient ==
    {Sdk("set", "SetCacheRequest", STORE, Its("success")),
     Sdk("get", "GetCacheRequest", KEY, IfHit("value")),
     Sdk("mGet", "MGetCacheRequest", {"namespace", "keys"}, Its("items")),
     Sdk("delete", "DeleteCacheRequest", KEY, Its("success")),
     Sdk("exists", "ExistsCacheRequest", KEY, Its("exists")),
     Sdk("invalidateNamespace", "InvalidateNamespaceRequest", {"namespace"}, Its("success")),
     Sdk("stats", "CacheStatsRequest", {}, Whole),
     Sdk("increment", "IncrementRequest", ADD, NumberOf("value")),
     Sdk("decrement", "DecrementRequest", ADD, NumberOf("value")),
     Sdk("setNX", "SetNXRequest", STORE, Its("created")),
     Sdk("getSet", "GetSetRequest", STORE, IfHit("oldValue")),
     Sdk("append", "AppendRequest", STORE, NumberOf("length")),
     Sdk("prepend", "PrependRequest", STORE, NumberOf("length"))}

QUEUE == {"queueName"}
LEASED == QUEUE \cup {"messageId", "ackToken"}

MQClient ==
    {Sdk("createQueue", "CreateQueueRequest", QUEUE \cup {"storageMode"}, Its("success")),
     Sdk("purgeQueue", "PurgeQueueRequest", QUEUE, Its("success")),
     Sdk("dropQueue", "DropQueueRequest", QUEUE, Its("success")),
     Sdk("send", "SendMessageRequest", QUEUE \cup {"jsonPayload", "delaySeconds"},
         NumberOf("messageId")),
     Sdk("sendBatch", "SendBatchRequest", QUEUE \cup {"jsonPayloads", "delaySeconds"},
         NumbersOf("messageIds")),
     Sdk("read", "ReadMessagesRequest", QUEUE \cup {"quantity", "visibilityTimeoutSeconds"},
         Its("messages")),
     Sdk("readWithPoll", "ReadWithPollRequest",
         QUEUE \cup {"quantity", "visibilityTimeoutSeconds", "maxPollSeconds", "pollIntervalMillis"},
         Its("messages")),
     Sdk("ack", "AckMessageRequest", LEASED, Its("success")),
     Sdk("archive", "ArchiveMessageRequest", LEASED, Its("success")),
     Sdk("setVisibilityTimeout", "SetVisibilityTimeoutRequest",
         LEASED \cup {"visibilityTimeoutSeconds"}, Its("success")),
     Sdk("metrics", "QueueMetricsRequest", QUEUE, Whole),
     Sdk("listDlqMessages", "ListDlqMessagesRequest", QUEUE \cup {"limit", "offset"},
         Its("messages")),
     Sdk("getDlqMessage", "GetDlqMessageRequest", QUEUE \cup {"originalMessageId"}, Whole),
     Sdk("reprocessDlqMessage", "ReprocessDlqMessageRequest",
         QUEUE \cup {"originalMessageId"}, Its("success")),
     Sdk("purgeDlq", "PurgeDlqRequest", QUEUE, Its("success"))}

ConfigClient ==
    {Sdk("getRelease", "GetConfigReleaseRequest", {"scope", "revision"},
         [as |-> "release", of |-> ""]),
     Sdk("watch", "WatchConfigRequest", {"scope", "knownRevision", "timeoutSeconds"},
         [as |-> "watch", of |-> ""])}

\* Unary methods without a wrapper, called with a whole request message.
Bare(service) ==
    LET wrapped == {m.stub : m \in CacheClient \cup MQClient \cup ConfigClient}
    IN  {Sdk(s, Method(service, s).I, Fields(Method(service, s).I), Whole) :
            s \in {s \in DOMAIN Stubs[service] \ wrapped : ~Method(service, s).serverStreaming}}

Api == [cache |-> CacheClient, mq |-> MQClient,
        config |-> ConfigClient \cup Bare("config"), health |-> Bare("health")]

\* JSON.parse(snapshotJson || "{}"), an object by its text; NotJson is the
\* other outcome.
Parsed(json) == IF json = "" THEN "{}" ELSE json

releaseSnapshot(r) ==
    [scope |-> r.scope, revision |-> Number(r.revision), checksum |-> r.checksum,
     snapshot |-> Parsed(r.snapshotJson), message |-> r.message,
     publishedBy |-> r.publishedBy, publishedAt |-> r.publishedAt]

\* response.hit ? response.value : null
Nullable(r, f) == IF r.hit THEN r[f] ELSE Null

Result(R, r) ==
    CASE R.as = "response" -> r
      [] R.as = "field" -> r[R.of]
      [] R.as = "nullable" -> Nullable(r, R.of)
      [] R.as = "number" -> Number(r[R.of])
      [] R.as = "numbers" -> [i \in DOMAIN r[R.of] |-> Number(r[R.of][i])]
      [] R.as = "release" -> releaseSnapshot(r)
      [] R.as = "watch" ->
            [changed |-> r.changed, latestRevision |-> Number(r.latestRevision),
             release |-> IF r.release = Undefined THEN Null ELSE releaseSnapshot(r.release)]
-----------------------------------------------------------------------------
(* Inputs, and what the tables of wrappers and classes have to do with each *)
(* other.                                                                   *)

\* A field is given what its type asks for, up to the numbers, which the
\* writer checks; a message in it is one the application has filled too.
Fills(F, v) ==
    CASE IsMessage(F.T) -> v \in {Undefined} \cup {create(F.T, args) : args \in Arguments[F.T]}
      [] F.T = "bool" -> v \in BOOLEAN
      [] OTHER -> TRUE

ASSUME ArgumentsAssumption ==
    \A t \in DOMAIN MessageType : \A args \in Arguments[t] :
        /\ DOMAIN args = Fields(t)
        /\ \A f \in Fields(t) :
              LET F == Field(t, f)
              IN  IF F.repeat = "no" THEN Fills(F, args[f])
                  ELSE /\ args[f] \in Seq(Range(args[f]))
                       /\ \A v \in Range(args[f]) : Fills(F, v) /\ v # Undefined

\* A field that is known has data of its type, and a number fits into 64 bits.
Carries(F, e) ==
    /\ e.data # Null
    /\ IsMessage(F.T) => e.data \in Seq(AnswersOf[F.T])
    /\ F.repeat = "packed" /\ e.wt = "len" => e.data \in Seq(Unsigned(W64))
    /\ F.T \in {"int64", "uint64"} /\ F.repeat = "no" => e.data \in Unsigned(W64)

ASSUME AnswersAssumption ==
    /\ Null # ""
    /\ \A t \in DOMAIN MessageType : \A e \in AnswersOf[t] : 
          e.no \in Nat /\ \A f \in Numbered(t, e.no) : Carries(Field(t, f), e)

Single(t, f, types) == f \in Fields(t) /\ Field(t, f).repeat = "no" /\ Field(t, f).T \in types

ASSUME WrappersAssumption ==
    \A service \in DOMAIN Api : \A api \in Api[service] :
        LET M == Method(service, api.stub)
            R == api.result
        IN  /\ M.I = api.I /\ {M.I, M.O} \subseteq DOMAIN MessageType /\ api.passes = Fields(api.I)
            /\ R.as = "nullable" => Single(M.O, "hit", {"bool"}) /\ Single(M.O, R.of, {"bytes"})
            /\ R.as = "number" => Single(M.O, R.of, {"int64", "uint64"})
            /\ R.as = "watch" => "release" \in Fields(M.O)
-----------------------------------------------------------------------------
NoRequest == [I |-> "none"]
Idle == [phase |-> "idle"]

Init ==
    /\ client \in [credentials : BOOLEAN, timeoutMs : BOOLEAN]
    /\ call = Idle
    /\ transit = 0
    /\ server = [executed |-> 0, request |-> NoRequest]

rpcOptionsNoTimeout ==
    [meta |-> IF client.credentials THEN {"x-pgapp-key", "x-pgapp-secret"} ELSE {}, timeout |-> FALSE]

rpcOptions == [meta |-> IF client.credentials THEN {"x-pgapp-key", "x-pgapp-secret"} ELSE {},
               timeout |-> client.timeoutMs]

Input(api, args) == create(api.I, [f \in api.passes |-> args[f]])
MethodOf(c) == Method(c.service, c.api.stub)

RejectAndResend(code, left) == UNCHANGED call /\ transit' = left + 1

\* wrap and PGAppError.from: whatever goes wrong rejects the promise, with
\* the code it came with.  left: transmissions that may still arrive.
Reject(code, left) ==
    /\ call' = [call EXCEPT !.phase = "rejected", !.code = code]
    /\ transit' = left

\* The stub writes the request with the class of its method; a request that
\* cannot be written is not sent.
Invoke(service, api, args) ==
    LET sent == Writable(Method(service, api.stub).I, Input(api, args))
    IN  /\ call = Idle
        /\ call' = [phase |-> IF sent THEN "sent" ELSE "rejected", service |-> service, api |-> api,
                    args |-> args, options |-> rpcOptions, code |-> Undefined]
        /\ transit' = IF sent THEN 1 ELSE 0
        /\ UNCHANGED <<client, server>>

\* The server gets the request, perhaps late, and reads it by its schema.
Execute ==
    /\ transit > 0
    /\ server.request = NoRequest
    /\ transit' = transit - 1
    /\ LET I == MethodOf(call).I
           wire == internalBinaryWrite(I, Input(call.api, call.args))
       IN  server' = [executed |-> server.executed + 1,
                      request |-> [I |-> I, meta |-> call.options.meta,
                                   message |-> internalBinaryRead(I, wire, create(I, NoFields))]]
    /\ UNCHANGED <<client, call>>

Answer ==
    /\ call.phase = "sent"
    /\ server.request # NoRequest
    /\ server' = [server EXCEPT !.request = NoRequest]
    /\ call' = [phase |-> "reading", service |-> call.service, api |-> call.api,
                wire |-> <<>>, message |-> create(MethodOf(call).O, NoFields)]
    /\ UNCHANGED <<client, transit>>

\* A turn of the loop that reads the answer.
ReadAnswer ==
    /\ call.phase = "reading"
    /\ Len(call.wire) < MaxFields
    /\ LET O == MethodOf(call).O
       IN  \E e \in AnswersOf[O] :
              call' = [call EXCEPT !.wire = Append(@, e), !.message = ReadField(O, @, e)]
    /\ UNCHANGED <<client, transit, server>>

Fulfil ==
    /\ call.phase = "reading"
    /\ call' = [phase |-> "fulfilled", service |-> call.service, api |-> call.api,
                wire |-> call.wire, result |-> Result(call.api.result, call.message)]
    /\ UNCHANGED <<client, transit, server>>

\* JSON.parse throws: the promise is rejected although the call went through.
NotJson ==
    /\ call.phase = "reading"
    /\ \/ call.api.result.as = "release" /\ call.message.snapshotJson # ""
       \/ /\ call.api.result.as = "watch" /\ call.message.release # Undefined
          /\ call.message.release.snapshotJson # ""
    /\ call' = [phase |-> "rejected", service |-> call.service, api |-> call.api, code |-> Undefined]
    /\ UNCHANGED <<client, transit, server>>

\* The server refuses the request, or fails after it took effect.
ServerFails(code) ==
    /\ call.phase = "sent"
    /\ \/ transit > 0 /\ Reject(code, transit - 1) /\ UNCHANGED server
       \/ /\ server.request # NoRequest
          /\ server' = [server EXCEPT !.request = NoRequest]
          /\ Reject(code, transit)
    /\ UNCHANGED client

ConnectionLost ==
    /\ call.phase = "sent"
    /\ Reject("UNAVAILABLE", transit)
    /\ UNCHANGED <<client, server>>

\* timeoutMs is the deadline of every call.
Deadline ==
    /\ call.phase = "sent"
    /\ call.options.timeout
    /\ Reject("DEADLINE_EXCEEDED", transit)
    /\ UNCHANGED <<client, server>>

Next ==
    \/ \E service \in DOMAIN Api : \E api \in Api[service] : \E args \in Arguments[api.I] :
          Invoke(service, api, args)
    \/ Execute \/ Answer \/ ReadAnswer \/ Fulfil \/ NotJson
    \/ \E code \in Codes : ServerFails(code)
    \/ ConnectionLost \/ Deadline

Spec == Init /\ [][Next]_vars

\* Reading is local and ends; a timer that is set fires.
FairSpec == Spec /\ WF_vars(Fulfil \/ NotJson) /\ WF_vars(Deadline)
-----------------------------------------------------------------------------
(* What is checked. *)

\* A call takes effect at most once, however it ends, since neither wrap nor
\* the stubs send anything again; and not at all when its arguments are no
\* integers of the fields' widths.
AtMostOnce ==
    /\ server.executed <= 1
    /\ "args" \in DOMAIN call /\ server.executed > 0 =>
          Writable(call.api.I, create(call.api.I, call.args))

\* The server handles the method that was called, with every argument as the
\* application gave it although defaults are not sent, and with the
\* credentials of the client.
ServerSeesTheCall ==
    server.request # NoRequest =>
        /\ server.request.I = call.api.I
        /\ server.request.message = create(call.api.I, call.args)
        /\ server.request.meta = (IF client.credentials THEN {"x-pgapp-key", "x-pgapp-secret"} ELSE {})

\* Wrappers whose result is not what the specification of the SDK asks for:
\* mget hands on the items as they came, where a miss has an empty value and
\* not null, and read and readWithPoll the messages with the text of their
\* payload and not the object.
NotConverted == {"mGet", "read", "readWithPoll"}

\* The promise is fulfilled only after the server has executed the request.
\* But for the wrappers above it is fulfilled with what the answer means, in
\* whatever order and number of pieces and with whatever unknown fields it
\* was written: get and getSet return null for a miss and only for a miss,
\* not for an empty value, watch returns null for an absent release and only
\* for that, and a number is exact up to 2^53.
AnswerReachesTheCaller ==
    call.phase = "fulfilled" =>
        LET meant == Denotes(MethodOf(call).O, call.wire)
            R == call.api.result
        IN  /\ server.executed = 1
            /\ call.api.stub \notin NotConverted => call.result = Result(R, meant)
            /\ R.as = "nullable" => (call.result = Null <=> ~meant.hit)
            /\ R.as = "number" /\ AbsOf(meant[R.of]) <= 2^SafeBits => call.result = meant[R.of]
            /\ R.as = "watch" => (call.result.release = Null <=> meant.release = Undefined)

\* A call with a deadline is settled, whatever the server and the network do.
CallEnds == call.phase = "sent" /\ client.timeoutMs ~> call.phase \in {"fulfilled", "rejected"}
=============================================================================
