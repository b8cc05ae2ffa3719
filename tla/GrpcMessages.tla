---------------------------- MODULE GrpcMessages ----------------------------
(***************************************************************************)
(* The messages of the grpc front end (grpc.pb.go) and its services         *)
(* (grpc_grpc.pb.go): what a client may send and what a reply looks like.    *)
(*                                                                           *)
(* A pointer to a message may be Nil.  A oneof is a record with the one      *)
(* field that is set.  A map has Nil for a key that is not there.  Documents  *)
(* (Kubernetes nodes and pods as JSON) are a parameter.                      *)
(***************************************************************************)
EXTENDS Integers, Sequences

CONSTANTS
  Nil,       \* the nil pointer
  Documents, \* the JSON documents
  Keys,      \* keys of maps: labels, resources, kinds of GPU
  Amounts    \* prices, thresholds and durations

Int32 == (-2147483647 - 1) .. 2147483647
Optional(Message) == Message \cup {Nil}
Map(Values) == [Keys -> Values \cup {Nil}]
Rpc(request, reply) == [request |-> request, reply |-> reply]

-----------------------------------------------------------------------------
(* Parts of messages *)

Error == [Code : STRING, Reason : STRING]
NodeGroup == [Id : STRING]
PricingModel == [Id : STRING]
ResourceLimiter == [MinLimits : Map(Int), MaxLimits : Map(Int)]

InstanceErrorClass == {"ERROR_UNDEFINED", "ERROR_OUT_OF_RESOURCES", "ERROR_OTHER"}
InstanceErrorInfo == [ErrorClass : InstanceErrorClass, ErrorCode : STRING, ErrorMessage : STRING]
InstanceState == {"STATE_UNDEFINED", "STATE_RUNNING", "STATE_BEING_CREATED", "STATE_BEING_DELETED"}
InstanceStatus == [State : InstanceState, ErrorInfo : Optional(InstanceErrorInfo)]
Instance == [Id : STRING, Status : Optional(InstanceStatus)]
Instances == [Items : Seq(Instance)]

AutoscalingOptions ==
  [ScaleDownUtilizationThreshold : Amounts, ScaleDownGpuUtilizationThreshold : Amounts,
   ScaleDownUnneededTime : Optional(Amounts), ScaleDownUnreadyTime : Optional(Amounts),
   MaxNodeProvisionTime : Optional(Amounts), ZeroOrMaxNodeScaling : BOOLEAN,
   IgnoreDaemonSetsUtilization : BOOLEAN]

AvailableMachineTypes == [MachineType : Seq(STRING)]
NodeGroupDef ==
  [NodeGroupID : STRING, MinSize : Int32, MaxSize : Int32, Provisionned : BOOLEAN,
   IncludeExistingNode : BOOLEAN, Labels : Map(STRING)]

\* What a new node will look like.  The server fills in the node and nothing else.
ProtocolPort == [Protocol : STRING, Port : Int32]
HostPortInfo == [HostPortInfo : Map(ProtocolPort)]
Resource == [MilliCPU : Int, Memory : Int, EphemeralStorage : Int, AllowedPodNumber : Int32,
             ScalarResources : Map(Int)]
ImageStateSummary == [Size : Int, NumNodes : Int32]
TransientSchedulerInfo == [AllocatableVolumesCount : Int32, RequestedVolumes : Int32]
NodeInfo ==
  [Node : Documents, Pods : Seq(Documents), UsedPorts : Optional(HostPortInfo),
   RequestedResource : Optional(Resource), NonzeroRequest : Optional(Resource),
   ImageStates : Map(Optional(ImageStateSummary)),
   TransientInfo : Optional(TransientSchedulerInfo), Generation : Int]

-----------------------------------------------------------------------------
(* Requests *)

CloudProviderServiceRequest == [ProviderID : STRING]
ConnectRequest ==
  [ProviderID : STRING, ResourceLimiter : Optional(ResourceLimiter), Nodes : Seq(NodeGroupDef),
   AutoProvisionned : BOOLEAN]
NewNodeGroupRequest ==
  [ProviderID : STRING, MachineType : STRING, NodeGroupID : STRING, MinNodeSize : Int32,
   MaxNodeSize : Int32, Labels : Map(STRING), SystemLabels : Map(STRING)]
NodeGroupForNodeRequest == [ProviderID : STRING, Node : Documents]
HasInstanceRequest == [ProviderID : STRING, Node : Documents]
NodeGroupServiceRequest == [ProviderID : STRING, NodeGroupID : STRING]
BelongsRequest == [ProviderID : STRING, NodeGroupID : STRING, Node : Documents]
IncreaseSizeRequest == [ProviderID : STRING, NodeGroupID : STRING, Delta : Int32]
DecreaseTargetSizeRequest == [ProviderID : STRING, NodeGroupID : STRING, Delta : Int32]
DeleteNodesRequest == [ProviderID : STRING, NodeGroupID : STRING, Node : Seq(Documents)]
GetOptionsRequest ==
  [ProviderID : STRING, NodeGroupID : STRING, Defaults : Optional(AutoscalingOptions)]
NodePriceRequest == [ProviderID : STRING, Node : Documents, StartTime : Int, EndTime : Int]
PodPriceRequest == [ProviderID : STRING, Pod : Documents, StartTime : Int, EndTime : Int]

-----------------------------------------------------------------------------
(* Replies *)

ConnectReply == [Error : Error] \cup [Connected : BOOLEAN]
NameReply == [Name : STRING]
NodeGroupsReply == [NodeGroups : Seq(NodeGroup)]
NodeGroupForNodeReply == [Error : Error] \cup [NodeGroup : NodeGroup]
PricingModelReply == [Error : Error] \cup [PriceModel : PricingModel]
AvailableMachineTypesReply == [Error : Error] \cup [AvailableMachineTypes : AvailableMachineTypes]
NewNodeGroupReply == [Error : Error] \cup [NodeGroup : NodeGroup]
ResourceLimiterReply == [Error : Error] \cup [ResourceLimiter : ResourceLimiter]
GPULabelReply == [Error : Error] \cup [Gpulabel : STRING]
GetAvailableGPUTypesReply == [AvailableGpuTypes : Map(STRING)]
CleanupReply == [Error : Optional(Error)]
RefreshReply == [Error : Optional(Error)]
HasInstanceReply == [Error : Error] \cup [HasInstance : BOOLEAN]

MaxSizeReply == [MaxSize : Int32]
MinSizeReply == [MinSize : Int32]
TargetSizeReply == [Error : Error] \cup [TargetSize : Int32]
IncreaseSizeReply == [Error : Optional(Error)]
DeleteNodesReply == [Error : Optional(Error)]
DecreaseTargetSizeReply == [Error : Optional(Error)]
IdReply == [Response : STRING]
DebugReply == [Response : STRING]
NodesReply == [Error : Error] \cup [Instances : Instances]
TemplateNodeInfoReply == [Error : Error] \cup [NodeInfo : NodeInfo]
ExistReply == [Exists : BOOLEAN]
CreateReply == [Error : Error] \cup [NodeGroup : NodeGroup]
DeleteReply == [Error : Optional(Error)]
AutoprovisionedReply == [Autoprovisioned : BOOLEAN]
BelongsReply == [Error : Error] \cup [Belongs : BOOLEAN]
GetOptionsReply == [Error : Error] \cup [NodeGroupAutoscalingOptions : AutoscalingOptions]

NodePriceReply == [Error : Error] \cup [Price : Amounts]
PodPriceReply == [Error : Error] \cup [Price : Amounts]

-----------------------------------------------------------------------------
(* Services *)

CloudProviderService ==
  [Connect |-> Rpc(ConnectRequest, ConnectReply),
   Name |-> Rpc(CloudProviderServiceRequest, NameReply),
   NodeGroups |-> Rpc(CloudProviderServiceRequest, NodeGroupsReply),
   NodeGroupForNode |-> Rpc(NodeGroupForNodeRequest, NodeGroupForNodeReply),
   Pricing |-> Rpc(CloudProviderServiceRequest, PricingModelReply),
   GetAvailableMachineTypes |-> Rpc(CloudProviderServiceRequest, AvailableMachineTypesReply),
   NewNodeGroup |-> Rpc(NewNodeGroupRequest, NewNodeGroupReply),
   GetResourceLimiter |-> Rpc(CloudProviderServiceRequest, ResourceLimiterReply),
   GPULabel |-> Rpc(CloudProviderServiceRequest, GPULabelReply),
   GetAvailableGPUTypes |-> Rpc(CloudProviderServiceRequest, GetAvailableGPUTypesReply),
   Cleanup |-> Rpc(CloudProviderServiceRequest, CleanupReply),
   Refresh |-> Rpc(CloudProviderServiceRequest, RefreshReply),
   HasInstance |-> Rpc(HasInstanceRequest, HasInstanceReply)]

NodeGroupService ==
  [MaxSize |-> Rpc(NodeGroupServiceRequest, MaxSizeReply),
   MinSize |-> Rpc(NodeGroupServiceRequest, MinSizeReply),
   TargetSize |-> Rpc(NodeGroupServiceRequest, TargetSizeReply),
   IncreaseSize |-> Rpc(IncreaseSizeRequest, IncreaseSizeReply),
   DeleteNodes |-> Rpc(DeleteNodesRequest, DeleteNodesReply),
   DecreaseTargetSize |-> Rpc(DecreaseTargetSizeRequest, DecreaseTargetSizeReply),
   Id |-> Rpc(NodeGroupServiceRequest, IdReply),
   Debug |-> Rpc(NodeGroupServiceRequest, DebugReply),
   Nodes |-> Rpc(NodeGroupServiceRequest, NodesReply),
   TemplateNodeInfo |-> Rpc(NodeGroupServiceRequest, TemplateNodeInfoReply),
   Exist |-> Rpc(NodeGroupServiceRequest, ExistReply),
   Create |-> Rpc(NodeGroupServiceRequest, CreateReply),
   Delete |-> Rpc(NodeGroupServiceRequest, DeleteReply),
   Autoprovisioned |-> Rpc(NodeGroupServiceRequest, AutoprovisionedReply),
   Belongs |-> Rpc(BelongsRequest, BelongsReply),
   GetOptions |-> Rpc(GetOptionsRequest, GetOptionsReply)]

PricingModelService ==
  [NodePrice |-> Rpc(NodePriceRequest, NodePriceReply),
   PodPrice |-> Rpc(PodPriceRequest, PodPriceReply)]
=============================================================================
