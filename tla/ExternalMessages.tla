-------------------------- MODULE ExternalMessages --------------------------
(***************************************************************************)
(* The messages of the externalgrpc front end (externalgrpc.pb.go) and its   *)
(* service (externalgrpc_grpc.pb.go), in the style of module GrpcMessages.   *)
(* There is no error message: a call that fails has a grpc status instead of *)
(* a response.                                                               *)
(***************************************************************************)
EXTENDS Integers, Sequences

CONSTANTS
  Nil,         \* the nil pointer
  Annotations, \* the annotations of a Kubernetes node
  Keys,        \* keys of maps
  Amounts      \* prices, thresholds and durations

Int32 == (-2147483647 - 1) .. 2147483647
Optional(Message) == Message \cup {Nil}
Map(Values) == [Keys -> Values \cup {Nil}]
Rpc(request, reply) == [request |-> request, reply |-> reply]
Nothing == [empty : {TRUE}]  \* a message without fields

-----------------------------------------------------------------------------
(* Parts of messages *)

NodeGroup == [Id : STRING, MinSize : Int32, MaxSize : Int32]
ExternalGrpcNode == [Name : STRING, Annotations : Annotations]

InstanceState == {"unspecified", "instanceRunning", "instanceCreating", "instanceDeleting"}
InstanceErrorInfo == [ErrorCode : STRING, ErrorMessage : STRING, InstanceErrorClass : Int32]
InstanceStatus == [InstanceState : InstanceState, ErrorInfo : Optional(InstanceErrorInfo)]
Instance == [Id : STRING, Status : Optional(InstanceStatus)]

NodeGroupAutoscalingOptions ==
  [ScaleDownUtilizationThreshold : Amounts, ScaleDownGpuUtilizationThreshold : Amounts,
   ScaleDownUnneededTime : Optional(Amounts), ScaleDownUnreadyTime : Optional(Amounts),
   MaxNodeProvisionTime : Optional(Amounts)]

-----------------------------------------------------------------------------
(* Requests *)

NodeGroupsRequest == Nothing
NodeGroupForNodeRequest == [Node : ExternalGrpcNode]
PricingNodePriceRequest == [Node : ExternalGrpcNode, StartTime : Int, EndTime : Int]
PricingPodPriceRequest == [StartTime : Int, EndTime : Int]
GPULabelRequest == Nothing
GetAvailableGPUTypesRequest == Nothing
CleanupRequest == Nothing
RefreshRequest == Nothing
NodeGroupTargetSizeRequest == [Id : STRING]
NodeGroupIncreaseSizeRequest == [Delta : Int32, Id : STRING]
NodeGroupDeleteNodesRequest == [Nodes : Seq(ExternalGrpcNode), Id : STRING]
NodeGroupDecreaseTargetSizeRequest == [Delta : Int32, Id : STRING]
NodeGroupNodesRequest == [Id : STRING]
NodeGroupTemplateNodeInfoRequest == [Id : STRING]
NodeGroupAutoscalingOptionsRequest == [Id : STRING, Defaults : Optional(NodeGroupAutoscalingOptions)]

-----------------------------------------------------------------------------
(* Responses *)

NodeGroupsResponse == [NodeGroups : Seq(NodeGroup)]
NodeGroupForNodeResponse == [NodeGroup : Optional(NodeGroup)]
PricingNodePriceResponse == [Price : Amounts]
PricingPodPriceResponse == [Price : Amounts]
GPULabelResponse == [Label : STRING]
GetAvailableGPUTypesResponse == [GpuTypes : Map(STRING)]
CleanupResponse == Nothing
RefreshResponse == Nothing
NodeGroupTargetSizeResponse == [TargetSize : Int32]
NodeGroupIncreaseSizeResponse == Nothing
NodeGroupDeleteNodesResponse == Nothing
NodeGroupDecreaseTargetSizeResponse == Nothing
NodeGroupNodesResponse == [Instances : Seq(Instance)]
NodeGroupTemplateNodeInfoResponse == [NodeInfo : Annotations]
NodeGroupAutoscalingOptionsResponse == [NodeGroupAutoscalingOptions : NodeGroupAutoscalingOptions]

-----------------------------------------------------------------------------
(* The service *)

CloudProvider ==
  [NodeGroups |-> Rpc(NodeGroupsRequest, NodeGroupsResponse),
   NodeGroupForNode |-> Rpc(NodeGroupForNodeRequest, NodeGroupForNodeResponse),
   PricingNodePrice |-> Rpc(PricingNodePriceRequest, PricingNodePriceResponse),
   PricingPodPrice |-> Rpc(PricingPodPriceRequest, PricingPodPriceResponse),
   GPULabel |-> Rpc(GPULabelRequest, GPULabelResponse),
   GetAvailableGPUTypes |-> Rpc(GetAvailableGPUTypesRequest, GetAvailableGPUTypesResponse),
   Cleanup |-> Rpc(CleanupRequest, CleanupResponse),
   Refresh |-> Rpc(RefreshRequest, RefreshResponse),
   NodeGroupTargetSize |-> Rpc(NodeGroupTargetSizeRequest, NodeGroupTargetSizeResponse),
   NodeGroupIncreaseSize |-> Rpc(NodeGroupIncreaseSizeRequest, NodeGroupIncreaseSizeResponse),
   NodeGroupDeleteNodes |-> Rpc(NodeGroupDeleteNodesRequest, NodeGroupDeleteNodesResponse),
   NodeGroupDecreaseTargetSize |->
     Rpc(NodeGroupDecreaseTargetSizeRequest, NodeGroupDecreaseTargetSizeResponse),
   NodeGroupNodes |-> Rpc(NodeGroupNodesRequest, NodeGroupNodesResponse),
   NodeGroupTemplateNodeInfo |->
     Rpc(NodeGroupTemplateNodeInfoRequest, NodeGroupTemplateNodeInfoResponse),
   NodeGroupGetOptions |->
     Rpc(NodeGroupAutoscalingOptionsRequest, NodeGroupAutoscalingOptionsResponse)]
=============================================================================
