\* A <kafka> or <syslog> output whose <name> is empty: the spec says every
\* kind must refuse it, and neither parse_kafka nor parse_syslog checks it.
\* (With Kinds = {"kafka"} or {"syslog"} alone the same trace exists.)
CONSTANTS
  Kinds = {"kafka", "syslog"}
  EnforceSchema = TRUE
  MaxOutputs = 1
  MaxProps = 0
  FmtFields = {}
  FmtWords = {}
  Names = {""}
  Text = {"t"}
  Keys = {}
  Ports = {65535}
  Ips = {}
  ValidIps = {"127.0.0.1"}
  ProtoWords = {}
  UINT32_MAX = 1000
  Windows = {}
  CompressWords = {}
  PartitionInputs = {}
  PartitionOf <- MCPartitionOf
  BrokerVersions = {}
  AcceptedVersions = {}
  HostWords = {}
  Programs = {}
  Facilities = {23}
  Severities = {7}
  Lower <- MCLower
  Null = Null
SPECIFICATION Spec
PROPERTY Refines
\* Construction ends in "done" or "failed" and nothing follows.
CHECK_DEADLOCK FALSE
