\* <syslog> outputs, one per document, with <priority> and <transport> blocks.
CONSTANTS
  Kinds = {"syslog"}
  EnforceSchema = TRUE
  MaxOutputs = 1
  MaxProps = 0
  FmtFields = {}
  FmtWords = {}
  Names = {"a"}
  Text = {"", "t"}
  Keys = {}
  Ports = {0, 65535, 65536}
  Ips = {}
  ValidIps = {"127.0.0.1"}
  ProtoWords = {}
  UINT32_MAX = 1000
  Windows = {}
  CompressWords = {}
  PartitionInputs = {}
  PartitionOf <- MCPartitionOf
  BrokerVersions = {}
  AcceptedVersions = {}
  HostWords = {"Local", "x"}
  Programs <- MCPrograms
  Facilities = {23, 24}
  Severities = {7, 8}
  Lower <- MCLower
  Null = Null
SPECIFICATION Spec
PROPERTY Refines DefaultsApplied
INVARIANT SingleTransport
\* Construction ends in "done" or "failed" and nothing follows.
CHECK_DEADLOCK FALSE
