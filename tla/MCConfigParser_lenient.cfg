\* <print>, <send> and <file> outputs, two per document, under a walker that
\* does not enforce the schema: required elements may be missing, unknown ones appear.
CONSTANTS
  Kinds = {"print", "send", "file"}
  EnforceSchema = FALSE
  MaxOutputs = 2
  MaxProps = 0
  FmtFields = {"tcpFlags", "numericNames"}
  FmtWords = {"RAW", "bogus"}
  Names = {"a", "b", ""}
  Text = {"", "t"}
  Keys = {}
  Ports = {0, 65535, 65536}
  Ips = {"", "::1", "999.999.999.999"}
  ValidIps = {"::1", "127.0.0.1"}
  ProtoWords = {"tcp", "x"}
  UINT32_MAX = 1000
  Windows = {1000, 1001}
  CompressWords = {"GZIP", "x"}
  PartitionInputs = {}
  PartitionOf <- MCPartitionOf
  BrokerVersions = {}
  AcceptedVersions = {}
  HostWords = {}
  Programs = {}
  Facilities = {}
  Severities = {}
  Lower <- MCLower
  Null = Null
SPECIFICATION Spec

PROPERTY Refines DefaultsApplied
\* Construction ends in "done" or "failed" and nothing follows.
CHECK_DEADLOCK FALSE
