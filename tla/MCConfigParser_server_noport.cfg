\* <server> under a walker that lets the required <port> element be missing.
CONSTANTS
  Kinds = {"server"}
  EnforceSchema = FALSE
  MaxOutputs = 1
  MaxProps = 0
  FmtFields = {"tcpFlags", "numericNames"}
  FmtWords = {"RAW", "bogus"}
  Names = {"a", "b", ""}
  Text = {"", "t"}
  Keys = {}
  Ports = {0, 65535, 65536}
  Ips = {"", "::1", "999.999.999.999"}
  ValidIps = {"::1", "127.0.0.1"}
  ProtoWords = {"tcp", "x"}
  UINT32_MAX = 1000
  Windows = {1000, 1001}
  CompressWords = {"GZIP", "x"}
  PartitionInputs = {}
  PartitionOf <- MCPartitionOf
  BrokerVersions = {}
  AcceptedVersions = {}
  HostWords = {}
  Programs = {}
  Facilities = {}
  Severities = {}
  Lower <- MCLower
  Null = Null
SPECIFICATION Spec
PROPERTY Refines
\* Construction ends in "done" or "failed" and nothing follows.
CHECK_DEADLOCK FALSE
