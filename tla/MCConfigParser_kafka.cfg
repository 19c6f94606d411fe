\* <kafka> outputs, one per document, with up to two <property> blocks.
CONSTANTS
  Kinds = {"kafka"}
  EnforceSchema = TRUE
  MaxOutputs = 1
  MaxProps = 2
  FmtFields = {}
  FmtWords = {}
  Names = {"a"}
  Text = {"", "t"}
  Keys = {"", "k", "j"}
  Ports = {}
  Ips = {}
  ValidIps = {"127.0.0.1"}
  ProtoWords = {}
  UINT32_MAX = 1000
  Windows = {}
  CompressWords = {}
  PartitionInputs = {"Unassigned", "3", "-2", "3x", "010"}
  PartitionOf <- MCPartitionOf
  BrokerVersions = {"1.1", "1"}
  AcceptedVersions = {"1.1"}
  HostWords = {}
  Programs = {}
  Facilities = {}
  Severities = {}
  Lower <- MCLower
  Null = Null
SPECIFICATION Spec
PROPERTY Refines DefaultsApplied
INVARIANT FirstWriteWins
\* Construction ends in "done" or "failed" and nothing follows.
CHECK_DEADLOCK FALSE
