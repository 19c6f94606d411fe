\* Up to three outputs drawn from all six kinds, so that names are compared
\* across every pair of kinds and a valid Config of three outputs exists;
\* the field values are cut to one valid value each.
CONSTANTS
  Kinds = {"print", "server", "send", "file", "kafka", "syslog"}
  EnforceSchema = TRUE
  MaxOutputs = 3
  MaxProps = 0
  FmtFields = {}
  FmtWords = {}
  Names = {"a", "b", "c"}
  Text = {"t"}
  Keys = {}
  Ports = {65535}
  Ips = {"127.0.0.1"}
  ValidIps = {"127.0.0.1"}
  ProtoWords = {}
  UINT32_MAX = 1000
  Windows = {300}
  CompressWords = {}
  PartitionInputs = {}
  PartitionOf <- MCPartitionOf
  BrokerVersions = {}
  AcceptedVersions = {}
  HostWords = {}
  Programs = {}
  Facilities = {23}
  Severities = {7}
  Lower <- MCLower
  Null = Null
SPECIFICATION Spec
PROPERTY Refines
\* Construction ends in "done" or "failed" and nothing follows.
CHECK_DEADLOCK FALSE
