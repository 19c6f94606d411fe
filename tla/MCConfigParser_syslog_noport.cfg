\* <syslog> under a walker that lets a <tcp> or <udp> block omit its <port>.
CONSTANTS
  Kinds = {"syslog"}
  EnforceSchema = FALSE
  MaxOutputs = 1
  MaxProps = 0
  FmtFields = {}
  FmtWords = {}
  Names = {"a"}
  Text = {"", "t"}
  Keys = {}
  Ports = {0, 65535, 65536}
  Ips = {}
  ValidIps = {"127.0.0.1"}
  ProtoWords = {}
  UINT32_MAX = 1000
  Windows = {}
  CompressWords = {}
  PartitionInputs = {}
  PartitionOf <- MCPartitionOf
  BrokerVersions = {}
  AcceptedVersions = {}
  HostWords = {"Local", "x"}
  Programs <- MCPrograms
  Facilities = {23, 24}
  Severities = {7, 8}
  Lower <- MCLower
  Null = Null
SPECIFICATION Spec
INVARIANT TransportPortInRange
\* Construction ends in "done" or "failed" and nothing follows.
CHECK_DEADLOCK FALSE
