---------------------------- MODULE ProtoMessages ----------------------------
(***************************************************************************)
(* The messages and services of the gRPC API as the generated TypeScript   *)
(* code knows them (sdk/typescript/src/gen/pgapp/v1).  A message class is  *)
(* the function from its fields to their descriptors: the field number its *)
(* read and write methods use, the type T it is read and written as, and   *)
(* how it repeats.  A service is the sequence of its methods; a client     *)
(* stub is the index its methods look theirs up with.                      *)
(***************************************************************************)
EXTENDS Naturals, Sequences

one(no, T) == [no |-> no, T |-> T, repeat |-> "no"]
many(no, T) == [no |-> no, T |-> T, repeat |-> "unpacked"]
packed(no, T) == [no |-> no, T |-> T, repeat |-> "packed"]

NoFields == [f \in {} |-> one(0, "bool")]


(* common.ts *)
Empty == NoFields
OperationResult == [success |-> one(1, "bool")]
ServiceCapability ==
    [name |-> one(1, "string"), state |-> one(2, "enum"),
     message |-> one(3, "string")]

(* health.ts *)
HealthRequest == NoFields
HealthResponse == [live |-> one(1, "bool")]
ReadinessRequest == NoFields
ReadinessResponse ==
    [ready |-> one(1, "bool"),
     capabilities |-> many(2, "ServiceCapability")]
RuntimeMetricsRequest == NoFields
MethodMetric ==
    [service |-> one(1, "string"), method |-> one(2, "string"),
     status |-> one(3, "string"), count |-> one(4, "uint64"),
     errors |-> one(5, "uint64"), totalLatencyMillis |-> one(6, "uint64")]
PgPoolMetrics == [size |-> one(1, "uint32"), idle |-> one(2, "uint32")]
RuntimeMetricsResponse ==
    [methods |-> many(1, "MethodMetric"),
     pgPool |-> one(2, "PgPoolMetrics")]

(* cache.ts *)
SetCacheRequest ==
    [namespace |-> one(1, "string"), key |-> one(2, "string"),
     value |-> one(3, "bytes"), ttlSeconds |-> one(4, "int64")]
GetCacheRequest == [namespace |-> one(1, "string"), key |-> one(2, "string")]
GetCacheResponse == [hit |-> one(1, "bool"), value |-> one(2, "bytes")]
MGetCacheRequest ==
    [namespace |-> one(1, "string"), keys |-> many(2, "string")]
CacheItem ==
    [key |-> one(1, "string"), hit |-> one(2, "bool"),
     value |-> one(3, "bytes")]
MGetCacheResponse == [items |-> many(1, "CacheItem")]
DeleteCacheRequest ==
    [namespace |-> one(1, "string"), key |-> one(2, "string")]
ExistsCacheRequest ==
    [namespace |-> one(1, "string"), key |-> one(2, "string")]
ExistsCacheResponse == [exists |-> one(1, "bool")]
InvalidateNamespaceRequest == [namespace |-> one(1, "string")]
CacheStatsRequest == NoFields
NamespaceUsage ==
    [namespace |-> one(1, "string"), keyCount |-> one(2, "int64"),
     byteSize |-> one(3, "int64")]
CacheStatsResponse ==
    [hits |-> one(1, "int64"), misses |-> one(2, "int64"),
     writes |-> one(3, "int64"), deletes |-> one(4, "int64"),
     evictions |-> one(5, "int64"), expiredRemovals |-> one(6, "int64"),
     logicalKeyCount |-> one(7, "int64"),
     logicalByteSize |-> one(8, "int64"),
     namespaceUsage |-> many(9, "NamespaceUsage")]
IncrementRequest ==
    [namespace |-> one(1, "string"), key |-> one(2, "string"),
     delta |-> one(3, "int64"), ttlSeconds |-> one(4, "int64")]
IncrementResponse == [value |-> one(1, "int64")]
DecrementRequest ==
    [namespace |-> one(1, "string"), key |-> one(2, "string"),
     delta |-> one(3, "int64"), ttlSeconds |-> one(4, "int64")]
DecrementResponse == [value |-> one(1, "int64")]
SetNXRequest ==
    [namespace |-> one(1, "string"), key |-> one(2, "string"),
     value |-> one(3, "bytes"), ttlSeconds |-> one(4, "int64")]
SetNXResponse == [created |-> one(1, "bool")]
GetSetRequest ==
    [namespace |-> one(1, "string"), key |-> one(2, "string"),
     value |-> one(3, "bytes"), ttlSeconds |-> one(4, "int64")]
GetSetResponse == [hit |-> one(1, "bool"), oldValue |-> one(2, "bytes")]
AppendRequest ==
    [namespace |-> one(1, "string"), key |-> one(2, "string"),
     value |-> one(3, "bytes"), ttlSeconds |-> one(4, "int64")]
AppendResponse == [length |-> one(1, "int64")]
PrependRequest ==
    [namespace |-> one(1, "string"), key |-> one(2, "string"),
     value |-> one(3, "bytes"), ttlSeconds |-> one(4, "int64")]
PrependResponse == [length |-> one(1, "int64")]

(* mq.ts *)
CreateQueueRequest ==
    [queueName |-> one(1, "string"), storageMode |-> one(2, "enum")]
PurgeQueueRequest == [queueName |-> one(1, "string")]
DropQueueRequest == [queueName |-> one(1, "string")]
SendMessageRequest ==
    [queueName |-> one(1, "string"), jsonPayload |-> one(2, "string"),
     delaySeconds |-> one(3, "int64")]
SendMessageResponse == [messageId |-> one(1, "int64")]
SendBatchRequest ==
    [queueName |-> one(1, "string"), jsonPayloads |-> many(2, "string"),
     delaySeconds |-> one(3, "int64")]
SendBatchResponse == [messageIds |-> packed(1, "int64")]
ReadMessagesRequest ==
    [queueName |-> one(1, "string"), quantity |-> one(2, "int32"),
     visibilityTimeoutSeconds |-> one(3, "int64")]
ReadWithPollRequest ==
    [queueName |-> one(1, "string"), quantity |-> one(2, "int32"),
     visibilityTimeoutSeconds |-> one(3, "int64"),
     maxPollSeconds |-> one(4, "int64"),
     pollIntervalMillis |-> one(5, "int64")]
StreamReadRequest ==
    [queueName |-> one(1, "string"), quantity |-> one(2, "int32"),
     visibilityTimeoutSeconds |-> one(3, "int64")]
QueueMessage ==
    [messageId |-> one(1, "int64"), readCount |-> one(2, "int32"),
     enqueuedAt |-> one(3, "string"),
     visibilityTimeoutAt |-> one(4, "string"),
     jsonPayload |-> one(5, "string"), ackToken |-> one(6, "string")]
ReadMessagesResponse == [messages |-> many(1, "QueueMessage")]
AckMessageRequest ==
    [queueName |-> one(1, "string"), messageId |-> one(2, "int64"),
     ackToken |-> one(3, "string")]
ArchiveMessageRequest ==
    [queueName |-> one(1, "string"), messageId |-> one(2, "int64"),
     ackToken |-> one(3, "string")]
SetVisibilityTimeoutRequest ==
    [queueName |-> one(1, "string"), messageId |-> one(2, "int64"),
     visibilityTimeoutSeconds |-> one(3, "int64"),
     ackToken |-> one(4, "string")]
QueueMetricsRequest == [queueName |-> one(1, "string")]
QueueMetricsResponse ==
    [visibleMessageCount |-> one(1, "int64"),
     inFlightMessageCount |-> one(2, "int64"),
     oldestVisibleMessageAgeSeconds |-> one(3, "int64"),
     archivedMessageCount |-> one(4, "int64"),
     dlqMessageCount |-> one(5, "int64")]
DlqMessage ==
    [id |-> one(1, "int64"), originalMessageId |-> one(2, "int64"),
     readCount |-> one(3, "int32"), enqueuedAt |-> one(4, "string"),
     deadLetteredAt |-> one(5, "string"), jsonPayload |-> one(6, "string"),
     reason |-> one(7, "string")]
ListDlqMessagesRequest ==
    [queueName |-> one(1, "string"), limit |-> one(2, "int32"),
     offset |-> one(3, "int64")]
ListDlqMessagesResponse ==
    [messages |-> many(1, "DlqMessage"), nextOffset |-> one(2, "int64")]
GetDlqMessageRequest ==
    [queueName |-> one(1, "string"), originalMessageId |-> one(2, "int64")]
ReprocessDlqMessageRequest ==
    [queueName |-> one(1, "string"), originalMessageId |-> one(2, "int64")]
PurgeDlqRequest == [queueName |-> one(1, "string")]

(* config.ts *)
ConfigScope ==
    [appId |-> one(1, "string"), environment |-> one(2, "string"),
     cluster |-> one(3, "string"), namespace |-> one(4, "string")]
ConfigItem ==
    [key |-> one(1, "string"), jsonValue |-> one(2, "string"),
     deleted |-> one(3, "bool"), updatedAt |-> one(4, "string")]
ConfigRelease ==
    [scope |-> one(1, "ConfigScope"), revision |-> one(2, "int64"),
     checksum |-> one(3, "string"), snapshotJson |-> one(4, "string"),
     message |-> one(5, "string"), publishedBy |-> one(6, "string"),
     publishedAt |-> one(7, "string")]
ListConfigScopesRequest ==
    [limit |-> one(1, "int32"), offset |-> one(2, "int64")]
ConfigScopeSummary ==
    [scope |-> one(1, "ConfigScope"), currentRevision |-> one(2, "int64"),
     createdAt |-> one(3, "string"), updatedAt |-> one(4, "string")]
ListConfigScopesResponse ==
    [scopes |-> many(1, "ConfigScopeSummary"),
     nextOffset |-> one(2, "int64")]
UpsertConfigItemRequest ==
    [scope |-> one(1, "ConfigScope"), key |-> one(2, "string"),
     jsonValue |-> one(3, "string")]
DeleteConfigItemRequest ==
    [scope |-> one(1, "ConfigScope"), key |-> one(2, "string")]
GetConfigDraftRequest == [scope |-> one(1, "ConfigScope")]
ConfigDraftResponse ==
    [scope |-> one(1, "ConfigScope"), items |-> many(2, "ConfigItem")]
PublishConfigRequest ==
    [scope |-> one(1, "ConfigScope"), message |-> one(2, "string"),
     publishedBy |-> one(3, "string")]
GetConfigReleaseRequest ==
    [scope |-> one(1, "ConfigScope"), revision |-> one(2, "int64")]
ListConfigReleasesRequest ==
    [scope |-> one(1, "ConfigScope"), limit |-> one(2, "int32"),
     offset |-> one(3, "int64")]
ListConfigReleasesResponse ==
    [releases |-> many(1, "ConfigRelease"), nextOffset |-> one(2, "int64")]
WatchConfigRequest ==
    [scope |-> one(1, "ConfigScope"), knownRevision |-> one(2, "int64"),
     timeoutSeconds |-> one(3, "int64")]
WatchConfigResponse ==
    [changed |-> one(1, "bool"), latestRevision |-> one(2, "int64"),
     release |-> one(3, "ConfigRelease")]
SetConfigSchemaRequest ==
    [scope |-> one(1, "ConfigScope"), jsonSchema |-> one(2, "string")]
GetConfigSchemaRequest == [scope |-> one(1, "ConfigScope")]
ConfigSchemaResponse ==
    [scope |-> one(1, "ConfigScope"), hasSchema |-> one(2, "bool"),
     jsonSchema |-> one(3, "string")]

\* The class a T names.
MessageType ==
    [Empty |-> Empty, OperationResult |-> OperationResult,
     ServiceCapability |-> ServiceCapability,
     HealthRequest |-> HealthRequest, HealthResponse |-> HealthResponse,
     ReadinessRequest |-> ReadinessRequest,
     ReadinessResponse |-> ReadinessResponse,
     RuntimeMetricsRequest |-> RuntimeMetricsRequest,
     MethodMetric |-> MethodMetric, PgPoolMetrics |-> PgPoolMetrics,
     RuntimeMetricsResponse |-> RuntimeMetricsResponse,
     SetCacheRequest |-> SetCacheRequest,
     GetCacheRequest |-> GetCacheRequest,
     GetCacheResponse |-> GetCacheResponse,
     MGetCacheRequest |-> MGetCacheRequest, CacheItem |-> CacheItem,
     MGetCacheResponse |-> MGetCacheResponse,
     DeleteCacheRequest |-> DeleteCacheRequest,
     ExistsCacheRequest |-> ExistsCacheRequest,
     ExistsCacheResponse |-> ExistsCacheResponse,
     InvalidateNamespaceRequest |-> InvalidateNamespaceRequest,
     CacheStatsRequest |-> CacheStatsRequest,
     NamespaceUsage |-> NamespaceUsage,
     CacheStatsResponse |-> CacheStatsResponse,
     IncrementRequest |-> IncrementRequest,
     IncrementResponse |-> IncrementResponse,
     DecrementRequest |-> DecrementRequest,
     DecrementResponse |-> DecrementResponse, SetNXRequest |-> SetNXRequest,
     SetNXResponse |-> SetNXResponse, GetSetRequest |-> GetSetRequest,
     GetSetResponse |-> GetSetResponse, AppendRequest |-> AppendRequest,
     AppendResponse |-> AppendResponse, PrependRequest |-> PrependRequest,
     PrependResponse |-> PrependResponse,
     CreateQueueRequest |-> CreateQueueRequest,
     PurgeQueueRequest |-> PurgeQueueRequest,
     DropQueueRequest |-> DropQueueRequest,
     SendMessageRequest |-> SendMessageRequest,
     SendMessageResponse |-> SendMessageResponse,
     SendBatchRequest |-> SendBatchRequest,
     SendBatchResponse |-> SendBatchResponse,
     ReadMessagesRequest |-> ReadMessagesRequest,
     ReadWithPollRequest |-> ReadWithPollRequest,
     StreamReadRequest |-> StreamReadRequest, QueueMessage |-> QueueMessage,
     ReadMessagesResponse |-> ReadMessagesResponse,
     AckMessageRequest |-> AckMessageRequest,
     ArchiveMessageRequest |-> ArchiveMessageRequest,
     SetVisibilityTimeoutRequest |-> SetVisibilityTimeoutRequest,
     QueueMetricsRequest |-> QueueMetricsRequest,
     QueueMetricsResponse |-> QueueMetricsResponse,
     DlqMessage |-> DlqMessage,
     ListDlqMessagesRequest |-> ListDlqMessagesRequest,
     ListDlqMessagesResponse |-> ListDlqMessagesResponse,
     GetDlqMessageRequest |-> GetDlqMessageRequest,
     ReprocessDlqMessageRequest |-> ReprocessDlqMessageRequest,
     PurgeDlqRequest |-> PurgeDlqRequest, ConfigScope |-> ConfigScope,
     ConfigItem |-> ConfigItem, ConfigRelease |-> ConfigRelease,
     ListConfigScopesRequest |-> ListConfigScopesRequest,
     ConfigScopeSummary |-> ConfigScopeSummary,
     ListConfigScopesResponse |-> ListConfigScopesResponse,
     UpsertConfigItemRequest |-> UpsertConfigItemRequest,
     DeleteConfigItemRequest |-> DeleteConfigItemRequest,
     GetConfigDraftRequest |-> GetConfigDraftRequest,
     ConfigDraftResponse |-> ConfigDraftResponse,
     PublishConfigRequest |-> PublishConfigRequest,
     GetConfigReleaseRequest |-> GetConfigReleaseRequest,
     ListConfigReleasesRequest |-> ListConfigReleasesRequest,
     ListConfigReleasesResponse |-> ListConfigReleasesResponse,
     WatchConfigRequest |-> WatchConfigRequest,
     WatchConfigResponse |-> WatchConfigResponse,
     SetConfigSchemaRequest |-> SetConfigSchemaRequest,
     GetConfigSchemaRequest |-> GetConfigSchemaRequest,
     ConfigSchemaResponse |-> ConfigSchemaResponse]

-----------------------------------------------------------------------------
rpc(name, I, O) == [name |-> name, I |-> I, O |-> O, serverStreaming |-> FALSE]
rpcStream(name, I, O) == [name |-> name, I |-> I, O |-> O, serverStreaming |-> TRUE]

CacheService ==
    <<rpc("Set", "SetCacheRequest", "OperationResult"),
      rpc("Get", "GetCacheRequest", "GetCacheResponse"),
      rpc("MGet", "MGetCacheRequest", "MGetCacheResponse"),
      rpc("Delete", "DeleteCacheRequest", "OperationResult"),
      rpc("Exists", "ExistsCacheRequest", "ExistsCacheResponse"),
      rpc("InvalidateNamespace", "InvalidateNamespaceRequest", "OperationResult"),
      rpc("Stats", "CacheStatsRequest", "CacheStatsResponse"),
      rpc("Increment", "IncrementRequest", "IncrementResponse"),
      rpc("Decrement", "DecrementRequest", "DecrementResponse"),
      rpc("SetNX", "SetNXRequest", "SetNXResponse"),
      rpc("GetSet", "GetSetRequest", "GetSetResponse"),
      rpc("Append", "AppendRequest", "AppendResponse"),
      rpc("Prepend", "PrependRequest", "PrependResponse")>>

CacheServiceClient ==
    [set |-> 0, get |-> 1, mGet |-> 2, delete |-> 3, exists |-> 4,
     invalidateNamespace |-> 5, stats |-> 6, increment |-> 7,
     decrement |-> 8, setNX |-> 9, getSet |-> 10, append |-> 11,
     prepend |-> 12]

MQService ==
    <<rpc("CreateQueue", "CreateQueueRequest", "OperationResult"),
      rpc("PurgeQueue", "PurgeQueueRequest", "OperationResult"),
      rpc("DropQueue", "DropQueueRequest", "OperationResult"),
      rpc("Send", "SendMessageRequest", "SendMessageResponse"),
      rpc("SendBatch", "SendBatchRequest", "SendBatchResponse"),
      rpc("Read", "ReadMessagesRequest", "ReadMessagesResponse"),
      rpc("ReadWithPoll", "ReadWithPollRequest", "ReadMessagesResponse"),
      rpc("Ack", "AckMessageRequest", "OperationResult"),
      rpc("Archive", "ArchiveMessageRequest", "OperationResult"),
      rpc("SetVisibilityTimeout", "SetVisibilityTimeoutRequest", "OperationResult"),
      rpc("Metrics", "QueueMetricsRequest", "QueueMetricsResponse"),
      rpc("ListDlqMessages", "ListDlqMessagesRequest", "ListDlqMessagesResponse"),
      rpc("GetDlqMessage", "GetDlqMessageRequest", "DlqMessage"),
      rpc("ReprocessDlqMessage", "ReprocessDlqMessageRequest", "OperationResult"),
      rpc("PurgeDlq", "PurgeDlqRequest", "OperationResult"),
      rpcStream("StreamRead", "StreamReadRequest", "ReadMessagesResponse")>>

MQServiceClient ==
    [createQueue |-> 0, purgeQueue |-> 1, dropQueue |-> 2, send |-> 3,
     sendBatch |-> 4, read |-> 5, readWithPoll |-> 6, ack |-> 7,
     archive |-> 8, setVisibilityTimeout |-> 9, metrics |-> 10,
     listDlqMessages |-> 11, getDlqMessage |-> 12,
     reprocessDlqMessage |-> 13, purgeDlq |-> 14, streamRead |-> 15]

ConfigService ==
    <<rpc("ListScopes", "ListConfigScopesRequest", "ListConfigScopesResponse"),
      rpc("UpsertItem", "UpsertConfigItemRequest", "OperationResult"),
      rpc("DeleteItem", "DeleteConfigItemRequest", "OperationResult"),
      rpc("GetDraft", "GetConfigDraftRequest", "ConfigDraftResponse"),
      rpc("Publish", "PublishConfigRequest", "ConfigRelease"),
      rpc("GetRelease", "GetConfigReleaseRequest", "ConfigRelease"),
      rpc("ListReleases", "ListConfigReleasesRequest", "ListConfigReleasesResponse"),
      rpc("Watch", "WatchConfigRequest", "WatchConfigResponse"),
      rpc("SetSchema", "SetConfigSchemaRequest", "OperationResult"),
      rpc("GetSchema", "GetConfigSchemaRequest", "ConfigSchemaResponse")>>

ConfigServiceClient ==
    [listScopes |-> 0, upsertItem |-> 1, deleteItem |-> 2, getDraft |-> 3,
     publish |-> 4, getRelease |-> 5, listReleases |-> 6, watch |-> 7,
     setSchema |-> 8, getSchema |-> 9]

HealthService ==
    <<rpc("GetHealth", "HealthRequest", "HealthResponse"),
      rpc("GetReadiness", "ReadinessRequest", "ReadinessResponse"),
      rpc("GetRuntimeMetrics", "RuntimeMetricsRequest", "RuntimeMetricsResponse")>>

HealthServiceClient ==
    [getHealth |-> 0, getReadiness |-> 1, getRuntimeMetrics |-> 2]

\* A stub method looks its descriptor up by position and hands it to the
\* transport together with the call's input.
Services == [cache |-> CacheService, mq |-> MQService,
             config |-> ConfigService, health |-> HealthService]
Stubs == [cache |-> CacheServiceClient, mq |-> MQServiceClient,
          config |-> ConfigServiceClient, health |-> HealthServiceClient]
Method(service, stub) == Services[service][Stubs[service][stub] + 1]
=============================================================================
