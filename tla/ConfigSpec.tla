----------------------------- MODULE ConfigSpec -----------------------------
(***************************************************************************)
(* What the constructor Config::Config(params) of the JSON output promises *)
(* (spec.md sections 3, 4 and 7): one construction either yields a         *)
(* Config whose format options and outputs satisfy every per-output and    *)
(* cross-output rule, or fails as a whole.  The result appears in one step *)
(* and never changes afterwards; no partially built Config is observable.  *)
(***************************************************************************)
EXTENDS Integers, Sequences, FiniteSets, Functions

CONSTANTS
  ValidIps,          \* strings inet_pton accepts as IPv4 or IPv6 literals
  AcceptedVersions,  \* broker version strings parse_version accepts
  UINT32_MAX,        \* largest window size an unsigned 32-bit field holds
  Null               \* nullptr: no socket, no object

VARIABLE result      \* [state: {"none", "failed", "built"}, config: ...]

AllKinds == {"print", "server", "send", "file", "kafka", "syslog"}

UINT16_MAX == 65535
INT32_MAX  == 2147483647
PARTITION_UA == -1          \* RD_KAFKA_PARTITION_UA
SYSLOG_FACILITY_MAX == 23
SYSLOG_SEVERITY_MAX == 7
SYSLOG_APPNAME_MAX_LEN == 48

Port == 1..UINT16_MAX

\* RFC 5424 printable characters: codes 33..126
PrintableAscii(s) == \A i \in DOMAIN s : s[i] \in 33..126

\* The names of all outputs, in the order check_validity visits them.
AllNames(o) ==
  LET ns(k) == [i \in DOMAIN o[k] |-> o[k][i].name]
  IN ns("print") \o ns("send") \o ns("server") \o ns("file") \o ns("kafka") \o ns("syslog")

OutputCount(o) == Len(AllNames(o))

ValidServer(r) == r.name # "" /\ r.port \in Port
ValidSend(r)   == /\ r.name # "" /\ r.port \in Port
                  /\ r.addr \in ValidIps /\ r.proto \in {"UDP", "TCP"}
ValidFile(r)   == /\ r.name # "" /\ r.path # ""
                  /\ r.window \in 0..UINT32_MAX /\ r.calg \in {"none", "gzip"}
ValidKafka(r)  == /\ r.name # "" /\ r.brokers # "" /\ r.topic # ""
                  /\ r.partition = PARTITION_UA \/ r.partition \in 0..INT32_MAX
                  /\ r.fallback = "" \/ r.fallback \in AcceptedVersions
                  /\ "" \notin DOMAIN r.properties
ValidSyslog(r) == /\ r.name # ""
                  /\ r.facility \in 0..SYSLOG_FACILITY_MAX
                  /\ r.severity \in 0..SYSLOG_SEVERITY_MAX
                  /\ r.hostname \in {"none", "local"}
                  /\ PrintableAscii(r.program)
                  /\ Len(r.program) <= SYSLOG_APPNAME_MAX_LEN
                  /\ r.transport # Null
                  /\ r.transport.type \in {"tcp", "udp"}
                  /\ r.transport.port \in Port

ValidConfig(c) ==
  LET o == c.outputs IN
  /\ OutputCount(o) >= 1
  /\ Len(o["print"]) <= 1
  /\ IsInjective(AllNames(o))
  /\ \A f \in DOMAIN c.format : c.format[f] \in BOOLEAN
  /\ \A r \in Range(o["print"])  : r.name # ""
  /\ \A r \in Range(o["server"]) : ValidServer(r)
  /\ \A r \in Range(o["send"])   : ValidSend(r)
  /\ \A r \in Range(o["file"])   : ValidFile(r)
  /\ \A r \in Range(o["kafka"])  : ValidKafka(r)
  /\ \A r \in Range(o["syslog"]) : ValidSyslog(r)

Init == result.state = "none"

\* The constructor returns: a valid Config, or the single wrapped failure.
Construct ==
  /\ result.state = "none"
  /\ \/ result'.state = "failed"
     \/ result'.state = "built" /\ ValidConfig(result'.config)

Spec == Init /\ [][Construct]_result
=============================================================================
