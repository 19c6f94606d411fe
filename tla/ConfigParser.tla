---------------------------- MODULE ConfigParser ----------------------------
(***************************************************************************)
(* Config::Config(params) of the JSON output (Config.cpp): the recursive   *)
(* descent over the XML tree of <params>.  Each parse_* function is a      *)
(* context: pc names the context whose while (fds_xml_next(...)) loop is   *)
(* running, one step handles one child the walker yields, and one step is *)
(* the post-loop validation that appends the output or throws.  Throws    *)
(* anywhere end construction in "failed" (the single wrapped error).      *)
(*                                                                         *)
(* The walker (libfds fds_xml_next) is the environment: it yields the      *)
(* children of the current element in any order.  With EnforceSchema it   *)
(* keeps to the args_* tables (only declared elements, non-multi ones at   *)
(* most once, required ones present before the end), as libfds does when  *)
(* fds_xml_parse_mem accepts the document; without it, required elements   *)
(* may be missing and undeclared ones may appear.                          *)
(***************************************************************************)
EXTENDS Integers, Sequences, FiniteSets, Functions, TLC

CONSTANTS
  Kinds,            \* output kinds the document may contain
  EnforceSchema,    \* does the walker enforce the args_* schema?
  MaxOutputs,       \* bound on children of <outputs>
  MaxProps,         \* bound on <property> children of one <kafka>
  FmtFields,        \* format option elements the document may contain
  FmtWords,         \* values of the string format options
  Names,            \* values of <name>
  Text,             \* values of free-text elements (path, brokers, ...)
  Keys,             \* values of a <property> <key>
  Ports,            \* unsigned values of <port> elements
  Ips,              \* values of <ip>
  ValidIps,         \* the ones inet_pton accepts
  ProtoWords,       \* values of <send><protocol>
  Windows,          \* values of <timeWindow>
  UINT32_MAX,       \* stand-in for 2^32-1 (TLC integers are 32-bit)
  CompressWords,    \* values of <compression>
  PartitionInputs,  \* values of <partition>
  PartitionOf,      \* outcomes of the <partition> case on each: [ok, val]
                    \* (see PartitionScan)
  BrokerVersions,   \* values of <brokerVersion>
  AcceptedVersions, \* the ones parse_version accepts (see ParseVersion)
  HostWords,        \* values of <syslog><hostname>
  Programs,         \* values of <program>, as sequences of char codes
  Facilities,       \* values of <facility>
  Severities,       \* values of <severity>
  Lower,            \* case folding of every word above, for strcasecmp
  Null              \* nullptr / no object

ASSUME Kinds \subseteq {"print", "server", "send", "file", "kafka", "syslog"}
ASSUME EnforceSchema \in BOOLEAN /\ MaxOutputs \in Nat /\ MaxProps \in Nat

AllKinds == {"print", "server", "send", "file", "kafka", "syslog"}
UINT16_MAX == 65535
PARTITION_UA == -1
SYSLOG_FACILITY_MAX == 23
SYSLOG_SEVERITY_MAX == 7
SYSLOG_FACILITY_DEF == 16
SYSLOG_SEVERITY_DEF == 6
SYSLOG_APPNAME_MAX_LEN == 48

\* default_set(): the format flags, by element name
FmtDefault ==
  [tcpFlags |-> TRUE, timestamp |-> TRUE, protocol |-> TRUE,
   ignoreUnknown |-> TRUE, ignoreOptions |-> TRUE, nonPrintableChar |-> TRUE,
   octetArrayAsUint |-> TRUE, numericNames |-> FALSE, splitBiflow |-> FALSE,
   detailedInfo |-> FALSE, templateInfo |-> FALSE]
\* the string options parsed by check_or(elem, value, val_true, val_false)
FmtChoice == [tcpFlags |-> <<"formatted", "raw">>, timestamp |-> <<"formatted", "unix">>,
              protocol |-> <<"formatted", "raw">>]

(***************************************************************************)
(* The args_* tables: the elements of each context, the required ones     *)
(* (flag 0) and the repeatable ones (FDS_OPTS_P_MULTI).                    *)
(***************************************************************************)
Tags ==
  [params    |-> FmtFields \cup {"outputs"},
   outputs   |-> Kinds,
   print     |-> {"name"},
   server    |-> {"name", "port", "blocking"},
   send      |-> {"name", "ip", "port", "protocol", "blocking"},
   file      |-> {"name", "path", "prefix", "timeWindow", "timeAlignment", "compression"},
   kafka     |-> {"name", "brokers", "topic", "partition", "brokerVersion", "blocking",
                  "performanceTuning", "property"},
   property  |-> {"key", "value"},
   syslog    |-> {"name", "hostname", "program", "procId", "priority", "transport"},
   priority  |-> {"facility", "severity"},
   transport |-> {"tcp", "udp"},
   tcp       |-> {"hostname", "port", "blocking"},
   udp       |-> {"hostname", "port"}]

Required ==
  [Tags EXCEPT !.params = {"outputs"}, !.outputs = {}, !.file = @ \ {"compression"},
               !.kafka = {"name", "brokers", "topic"}, !.syslog = {"name", "transport"},
               !.transport = {}]

Multi == [c \in DOMAIN Tags |-> CASE c = "outputs" -> Kinds
                                  [] c = "kafka"   -> {"property"}
                                  [] OTHER         -> {}]

Contexts == DOMAIN Tags

\* an uninitialized uint16_t local: any value the type holds
Indeterminate16 == {p \in Ports : p <= UINT16_MAX}

(* The outputs as each parse_* function declares and pre-sets them.       *)
PrintDefaults  == {[name |-> ""]}
ServerDefaults == {[name |-> "", port |-> 0, blocking |-> FALSE]}
\* faulty: the protocol pre-set to TCP
SendDefaultsTcp == [name: {""}, addr: {"127.0.0.1"}, port: {4739}, proto: {"TCP"},
                    blocking: BOOLEAN]

\* cfg_send::blocking is not pre-set: any value
SendDefaults   == [name: {""}, addr: {"127.0.0.1"}, port: {4739}, proto: {"UDP"},
                   blocking: BOOLEAN]
\* faulty: time alignment not pre-set (zero-initialized)
FileDefaultsNoAlign == {[name |-> "", path |-> "", prefix |-> "", window |-> 300,
                         align |-> FALSE, calg |-> "none"]}
FileDefaults   == {[name |-> "", path |-> "", prefix |-> "", window |-> 300, align |-> TRUE,
                    calg |-> "none"]}
\* faulty: performance tuning pre-set off
KafkaDefaultsPerfOff == {[name |-> "", brokers |-> "", topic |-> "", partition |-> PARTITION_UA,
                          fallback |-> "", blocking |-> FALSE, perf |-> FALSE,
                          properties |-> [k \in {} |-> ""], log |-> <<>>]}
\* log: history of the <property> blocks parsed, for FirstWriteWins
KafkaDefaults  == {[name |-> "", brokers |-> "", topic |-> "", partition |-> PARTITION_UA,
                    fallback |-> "", blocking |-> FALSE, perf |-> TRUE,
                    properties |-> [k \in {} |-> ""], log |-> <<>>]}
\* faulty: the priority not pre-set (zero-initialized: kern.emerg)
SyslogDefaultsNoPriority == {[name |-> "", facility |-> 0, severity |-> 0, hostname |-> "none",
                              program |-> <<>>, procId |-> FALSE, transport |-> Null, blocks |-> 0]}
\* blocks: number of <tcp>/<udp> blocks parsed, for SingleTransport
SyslogDefaults == {[name |-> "", facility |-> SYSLOG_FACILITY_DEF,
                    severity |-> SYSLOG_SEVERITY_DEF, hostname |-> "none", program |-> <<>>,
                    procId |-> FALSE, transport |-> Null, blocks |-> 0]}

Defaults ==
  [print |-> PrintDefaults, server |-> ServerDefaults, send |-> SendDefaults,
   file |-> FileDefaults, kafka |-> KafkaDefaults, syslog |-> SyslogDefaults]

VARIABLES
  pc,        \* the running context, or "start", "check", "done", "failed"
  seen,      \* per context: the elements the walker has yielded in it
  nOut,      \* children of <outputs> yielded so far
  fmt,       \* Config::format
  outputs,   \* Config::outputs: kind -> sequence of outputs
  out,       \* the output being parsed (the local `output`)
  prop,      \* parse_kafka_property's key and value
  pri,       \* parse_syslog_priority's values and isFacilitySet/isSeveritySet
  sock,      \* parse_syslog_transport's socket
  leaf       \* parse_syslog_tcp/udp's hostname, port (and blocking)

vars == <<pc, seen, nOut, fmt, outputs, out, prop, pri, sock, leaf>>
locals == <<prop, pri, sock, leaf>>

-----------------------------------------------------------------------------
(* The walker and the exceptions.                                          *)

\* fds_xml_next may yield `tag` in the current context
Yield(tag) ==
  /\ tag \in Tags[pc]
  /\ tag \notin seen[pc] \/ tag \in Multi[pc]

Mark(tag) == seen' = [seen EXCEPT ![pc] = @ \cup {tag}]

\* fds_xml_next may return FDS_EOC
AtEnd == ~EnforceSchema \/ Required[pc] \subseteq seen[pc]

\* a nested context is entered through its element `tag`
Enter(tag, ctx) ==
  /\ pc' = ctx
  /\ seen' = [seen EXCEPT ![pc] = @ \cup {tag}, ![ctx] = {}]

Leave(parent) == pc' = parent /\ seen' = [seen EXCEPT ![pc] = {}]

\* throw std::invalid_argument / std::runtime_error, wrapped by the constructor
Throw == pc' = "failed" /\ UNCHANGED <<seen, nOut, fmt, outputs, out, locals>>

\* case <tag>: output.<f> = value
SetOut(tag, f, v) ==
  /\ Mark(tag) /\ out' = [out EXCEPT ![f] = v]
  /\ UNCHANGED <<pc, nOut, fmt, outputs, locals>>

CaseEq(a, b) == Lower[a] = Lower[b]

\* check_or(): TRUE, FALSE, or (neither word) an exception
ChoiceOk(w, pair) == CaseEq(w, pair[1]) \/ CaseEq(w, pair[2])

\* the port checks of <server>, <send>, <tcp> and <udp>
PortInvalidNoZero(v) == v > UINT16_MAX
PortInvalidNoMax(v) == v = 0
PortInvalid(v) == v > UINT16_MAX \/ v = 0

-----------------------------------------------------------------------------
Init ==
  /\ pc = "start"
  /\ seen = [c \in Contexts |-> {}]
  /\ nOut = 0
  /\ fmt = FmtDefault
  /\ outputs = [k \in AllKinds |-> <<>>]
  /\ out = Null
  /\ prop = Null /\ pri = Null /\ sock = Null /\ leaf = Null

\* fds_xml_create / fds_xml_set_args / fds_xml_parse_mem, then parse_params
XmlParse ==
  /\ pc = "start"
  /\ pc' \in {"params", "failed"}
  /\ UNCHANGED <<seen, nOut, fmt, outputs, out, locals>>

\* parse_params: a string option through check_or
ParamsChoice ==
  /\ pc = "params"
  /\ \E f \in DOMAIN FmtChoice \cap FmtFields, w \in FmtWords :
       /\ Yield(f)
       /\ IF ChoiceOk(w, FmtChoice[f])
            THEN /\ Mark(f) /\ fmt' = [fmt EXCEPT ![f] = CaseEq(w, FmtChoice[f][1])]
                 /\ UNCHANGED <<pc, nOut, outputs, out, locals>>
            ELSE Throw

\* parse_params: a boolean option
ParamsFlag ==
  /\ pc = "params"
  /\ \E f \in FmtFields \ DOMAIN FmtChoice, b \in BOOLEAN :
       /\ Yield(f) /\ Mark(f) /\ fmt' = [fmt EXCEPT ![f] = b]
       /\ UNCHANGED <<pc, nOut, outputs, out, locals>>

\* parse_params: case OUTPUT_LIST -> parse_outputs
ParamsOutputs ==
  /\ pc = "params" /\ Yield("outputs") /\ Enter("outputs", "outputs")
  /\ UNCHANGED <<nOut, fmt, outputs, out, locals>>

\* parse_params returns; the constructor calls check_validity
ParamsEnd ==
  /\ pc = "params" /\ AtEnd /\ Leave("check")
  /\ UNCHANGED <<nOut, fmt, outputs, out, locals>>

\* parse_outputs: dispatch to parse_<kind>, which pre-sets its defaults
OutputsNext ==
  /\ pc = "outputs"
  /\ nOut < MaxOutputs
  /\ \E k \in Kinds :
       /\ Yield(k) /\ Enter(k, k) /\ out' \in Defaults[k]
  /\ nOut' = nOut + 1
  /\ UNCHANGED <<fmt, outputs, locals>>

OutputsEnd ==
  /\ pc = "outputs" /\ AtEnd /\ Leave("params")
  /\ UNCHANGED <<nOut, fmt, outputs, out, locals>>

\* the default: branch of every switch: "Unexpected element within <...>!"
Unexpected ==
  /\ ~EnforceSchema
  /\ pc \in Contexts
  /\ Throw

\* a parse_<kind> returns: append the output to its collection
PushBack(k) ==
  /\ outputs' = [outputs EXCEPT ![k] = Append(@, out)]
  /\ out' = Null
  /\ Leave("outputs")
  /\ UNCHANGED <<nOut, fmt, locals>>

ParsePrint ==
  /\ pc = "print"
  /\ Yield("name") /\ \E v \in Names : SetOut("name", "name", v)

PrintEnd ==
  /\ pc = "print" /\ AtEnd
  /\ IF out.name = "" THEN Throw ELSE PushBack("print")

ParseServer ==
  /\ pc = "server"
  /\ \/ Yield("name") /\ \E v \in Names : SetOut("name", "name", v)
     \/ Yield("port") /\ \E v \in Ports :
          IF PortInvalid(v) THEN Throw ELSE SetOut("port", "port", v)
     \/ Yield("blocking") /\ \E b \in BOOLEAN : SetOut("blocking", "blocking", b)

ServerEnd ==
  /\ pc = "server" /\ AtEnd
  /\ IF out.name = "" THEN Throw ELSE PushBack("server")

ParseSend ==
  /\ pc = "send"
  /\ \/ Yield("name") /\ \E v \in Names : SetOut("name", "name", v)
     \/ Yield("ip") /\ \E v \in Ips : SetOut("ip", "addr", v)
     \/ Yield("port") /\ \E v \in Ports :
          IF PortInvalid(v) THEN Throw ELSE SetOut("port", "port", v)
     \/ Yield("protocol") /\ \E w \in ProtoWords :
          IF ChoiceOk(w, <<"UDP", "TCP">>)
            THEN SetOut("protocol", "proto", IF CaseEq(w, "UDP") THEN "UDP" ELSE "TCP")
            ELSE Throw
     \/ Yield("blocking") /\ \E b \in BOOLEAN : SetOut("blocking", "blocking", b)

\* faulty: only the empty address is refused, check_ip is not called
SendAddrBadEmptyOnly(a) == a = ""

\* if (output.addr.empty() || !check_ip(output.addr)) throw
SendAddrBad(a) == a = "" \/ a \notin ValidIps

SendEnd ==
  /\ pc = "send" /\ AtEnd
  /\ IF out.name = "" \/ SendAddrBad(out.addr) THEN Throw ELSE PushBack("send")

ParseFile ==
  /\ pc = "file"
  /\ \/ Yield("name") /\ \E v \in Names : SetOut("name", "name", v)
     \/ Yield("path") /\ \E v \in Text : SetOut("path", "path", v)
     \/ Yield("prefix") /\ \E v \in Text : SetOut("prefix", "prefix", v)
     \/ Yield("timeWindow") /\ \E v \in Windows :
          IF v > UINT32_MAX THEN Throw ELSE SetOut("timeWindow", "window", v)
     \/ Yield("timeAlignment") /\ \E b \in BOOLEAN : SetOut("timeAlignment", "align", b)
     \/ Yield("compression") /\ \E w \in CompressWords :
          IF ChoiceOk(w, <<"none", "gzip">>)
            THEN SetOut("compression", "calg", IF CaseEq(w, "none") THEN "none" ELSE "gzip")
            ELSE Throw

FileEnd ==
  /\ pc = "file" /\ AtEnd
  /\ IF out.name = "" \/ out.path = "" THEN Throw ELSE PushBack("file")

-----------------------------------------------------------------------------
(* parse_kafka and parse_kafka_property                                    *)

ParseKafka ==
  /\ pc = "kafka"
  /\ \/ Yield("name") /\ \E v \in Names : SetOut("name", "name", v)
     \/ Yield("brokers") /\ \E v \in Text : SetOut("brokers", "brokers", v)
     \/ Yield("topic") /\ \E v \in Text : SetOut("topic", "topic", v)
     \/ Yield("partition") /\ \E w \in PartitionInputs : \E r \in PartitionOf[w] :
          IF r.ok THEN SetOut("partition", "partition", r.val) ELSE Throw
     \/ Yield("brokerVersion") /\ \E v \in BrokerVersions :
          SetOut("brokerVersion", "fallback", v)
     \/ Yield("blocking") /\ \E b \in BOOLEAN : SetOut("blocking", "blocking", b)
     \/ Yield("performanceTuning") /\ \E b \in BOOLEAN :
          SetOut("performanceTuning", "perf", b)
     \/ /\ Yield("property") /\ Len(out.log) < MaxProps
        /\ Enter("property", "property")
        /\ prop' = [key |-> "", value |-> ""]
        /\ UNCHANGED <<nOut, fmt, outputs, out, pri, sock, leaf>>

\* faulty: the result of parse_version read the wrong way round
VersionRejectedInverted(v) == v \in AcceptedVersions

\* parse_version(output.broker_fallback, version) != IPX_OK
VersionRejected(v) == v \notin AcceptedVersions

KafkaEnd ==
  /\ pc = "kafka" /\ AtEnd
  /\ IF \/ out.brokers = ""
        \/ out.topic = ""
        \/ out.fallback # "" /\ VersionRejected(out.fallback)
       THEN Throw ELSE PushBack("kafka")

ParseProperty ==
  /\ pc = "property"
  /\ \/ Yield("key") /\ \E v \in Keys : Mark("key") /\ prop' = [prop EXCEPT !.key = v]
     \/ Yield("value") /\ \E v \in Text : Mark("value") /\ prop' = [prop EXCEPT !.value = v]
  /\ UNCHANGED <<pc, nOut, fmt, outputs, out, pri, sock, leaf>>

\* faulty: an insert that overwrites an existing key (operator[] / insert_or_assign)
EmplaceOverwrite(m, k, v) == (k :> v) @@ m

\* std::map::emplace: inserts only when the key is absent
Emplace(m, k, v) == m @@ (k :> v)

\* kafka.properties.emplace(key, value); the log records every block (history)
PropertyEnd ==
  /\ pc = "property" /\ AtEnd
  /\ IF prop.key = ""
       THEN Throw
       ELSE /\ out' = [out EXCEPT !.properties = Emplace(@, prop.key, prop.value),
                                  !.log = Append(@, prop)]
            /\ prop' = Null
            /\ Leave("kafka")
            /\ UNCHANGED <<nOut, fmt, outputs, pri, sock, leaf>>

-----------------------------------------------------------------------------
(* parse_syslog and its priority and transport blocks                      *)

ParseSyslog ==
  /\ pc = "syslog"
  /\ \/ Yield("name") /\ \E v \in Names : SetOut("name", "name", v)
     \/ Yield("hostname") /\ \E w \in HostWords :
          IF ChoiceOk(w, <<"none", "local">>)
            THEN SetOut("hostname", "hostname", IF CaseEq(w, "none") THEN "none" ELSE "local")
            ELSE Throw
     \/ Yield("program") /\ \E v \in Programs : SetOut("program", "program", v)
     \/ Yield("procId") /\ \E b \in BOOLEAN : SetOut("procId", "procId", b)
     \/ /\ Yield("priority") /\ Enter("priority", "priority")
        /\ pri' = [facility |-> 0, severity |-> 0, fset |-> FALSE, sset |-> FALSE]
        /\ UNCHANGED <<nOut, fmt, outputs, out, prop, sock, leaf>>
     \/ /\ Yield("transport") /\ Enter("transport", "transport")
        /\ sock' = Null
        /\ UNCHANGED <<nOut, fmt, outputs, out, prop, pri, leaf>>

\* is_syslog_ascii(): every char in 33..126 (char is signed: >= 128 fails)
IsSyslogAscii(s) == \A i \in DOMAIN s : s[i] >= 33 /\ s[i] <= 126

SyslogEnd ==
  /\ pc = "syslog" /\ AtEnd
  /\ IF \/ out.transport = Null
        \/ ~IsSyslogAscii(out.program)
        \/ Len(out.program) > SYSLOG_APPNAME_MAX_LEN
       THEN Throw ELSE PushBack("syslog")

ParsePriority ==
  /\ pc = "priority"
  /\ \/ Yield("facility") /\ \E v \in Facilities :
          Mark("facility") /\ pri' = [pri EXCEPT !.facility = v, !.fset = TRUE]
     \/ Yield("severity") /\ \E v \in Severities :
          Mark("severity") /\ pri' = [pri EXCEPT !.severity = v, !.sset = TRUE]
  /\ UNCHANGED <<pc, nOut, fmt, outputs, out, prop, sock, leaf>>

\* faulty: severity checked against the facility bound
PriorityBadSwapped(p) ==
  \/ ~(p.fset /\ p.sset)
  \/ p.facility > SYSLOG_FACILITY_MAX
  \/ p.severity > SYSLOG_FACILITY_MAX

\* both set, facility <= 23, severity <= 7
PriorityBad(p) ==
  \/ ~(p.fset /\ p.sset)
  \/ p.facility > SYSLOG_FACILITY_MAX
  \/ p.severity > SYSLOG_SEVERITY_MAX

PriorityEnd ==
  /\ pc = "priority" /\ AtEnd
  /\ IF PriorityBad(pri)
       THEN Throw
       ELSE /\ out' = [out EXCEPT !.facility = pri.facility, !.severity = pri.severity]
            /\ pri' = Null
            /\ Leave("syslog")
            /\ UNCHANGED <<nOut, fmt, outputs, prop, sock, leaf>>

\* faulty: the check for an earlier transport is left out
SocketTakenNever(s) == FALSE

\* if (socket != nullptr) throw "Multiple syslog transport types are not allowed!"
SocketTaken(s) == s # Null

\* the loop of parse_syslog_transport: the socket check comes before the switch
TransportNext ==
  /\ pc = "transport"
  /\ \E t \in {"tcp", "udp"} :
       /\ Yield(t)
       /\ IF SocketTaken(sock)
            THEN Throw
            ELSE /\ Enter(t, t)
                 /\ leaf' \in [host: {""}, port: Indeterminate16,
                               blocking: IF t = "tcp" THEN BOOLEAN ELSE {FALSE}]
                 /\ UNCHANGED <<nOut, fmt, outputs, out, prop, pri, sock>>

\* syslog.transport = std::move(socket)
TransportEnd ==
  /\ pc = "transport" /\ AtEnd
  /\ out' = [out EXCEPT !.transport = sock]
  /\ sock' = Null
  /\ Leave("syslog")
  /\ UNCHANGED <<nOut, fmt, outputs, prop, pri, leaf>>

\* case <tag>: the local <f> = value
SetLeaf(tag, f, v) ==
  /\ Mark(tag) /\ leaf' = [leaf EXCEPT ![f] = v]
  /\ UNCHANGED <<pc, nOut, fmt, outputs, out, prop, pri, sock>>

\* parse_syslog_tcp / parse_syslog_udp: the switch over the children
ParseSocket ==
  /\ pc \in {"tcp", "udp"}
  /\ \/ Yield("hostname") /\ \E v \in Text : SetLeaf("hostname", "host", v)
     \/ Yield("port") /\ \E v \in Ports :
          IF PortInvalid(v) THEN Throw ELSE SetLeaf("port", "port", v)
     \/ Yield("blocking") /\ \E b \in BOOLEAN : SetLeaf("blocking", "blocking", b)

\* return unique_ptr(new Tcp/UdpSyslogSocket(hostname, port[, blocking]))
SocketEnd ==
  /\ pc \in {"tcp", "udp"} /\ AtEnd
  /\ sock' = [type |-> pc] @@ leaf
  /\ out' = [out EXCEPT !.blocks = @ + 1]
  /\ leaf' = Null
  /\ Leave("transport")
  /\ UNCHANGED <<nOut, fmt, outputs, prop, pri>>

-----------------------------------------------------------------------------
\* faulty: the loop over outputs.syslogs is left out of the name check
NameListNoSyslog(o) ==
  LET ns(k) == [i \in DOMAIN o[k] |-> o[k][i].name]
  IN ns("print") \o ns("send") \o ns("server") \o ns("file") \o ns("kafka")

\* check_validity(): the names in the order the loops visit the collections
NameList(o) ==
  LET ns(k) == [i \in DOMAIN o[k] |-> o[k][i].name]
  IN ns("print") \o ns("send") \o ns("server") \o ns("file") \o ns("kafka") \o ns("syslog")

\* a single std::set<std::string> names collects the names of all kinds
NamesCollide(o) == ~IsInjective(NameList(o))

CheckValidity ==
  /\ pc = "check"
  /\ pc' = IF \/ Len(NameList(outputs)) = 0
              \/ Len(outputs["print"]) > 1
              \/ NamesCollide(outputs)
           THEN "failed" ELSE "done"
  /\ UNCHANGED <<seen, nOut, fmt, outputs, out, locals>>

-----------------------------------------------------------------------------
Next ==
  \/ XmlParse \/ ParamsChoice \/ ParamsFlag \/ ParamsOutputs \/ ParamsEnd
  \/ OutputsNext \/ OutputsEnd \/ Unexpected
  \/ ParsePrint \/ PrintEnd \/ ParseServer \/ ServerEnd \/ ParseSend \/ SendEnd
  \/ ParseFile \/ FileEnd
  \/ ParseKafka \/ KafkaEnd \/ ParseProperty \/ PropertyEnd
  \/ ParseSyslog \/ SyslogEnd \/ ParsePriority \/ PriorityEnd
  \/ TransportNext \/ TransportEnd \/ ParseSocket \/ SocketEnd
  \/ CheckValidity

\* Construction is one synchronous call: nothing else runs beside it.
Spec == Init /\ [][Next]_vars

-----------------------------------------------------------------------------
(* Types: the C++ field types of each output (uint16_t ports, ...).        *)

Str(S) == S \cup {""}
Socket == [type: {"tcp", "udp"}, host: Str(Text), port: 0..UINT16_MAX, blocking: BOOLEAN]

OutputType ==
  [print  |-> [name: Str(Names)],
   server |-> [name: Str(Names), port: 0..UINT16_MAX, blocking: BOOLEAN],
   send   |-> [name: Str(Names), addr: Ips \cup {"127.0.0.1"}, port: 0..UINT16_MAX,
               proto: {"UDP", "TCP"}, blocking: BOOLEAN],
   file   |-> [name: Str(Names), path: Str(Text), prefix: Str(Text), window: 0..UINT32_MAX,
               align: BOOLEAN, calg: {"none", "gzip"}],
   kafka  |-> [name: Str(Names), brokers: Str(Text), topic: Str(Text),
               partition: Int, fallback: Str(BrokerVersions), blocking: BOOLEAN,
               perf: BOOLEAN, properties: UNION {[D -> Str(Text)] : D \in SUBSET Keys},
               log: Seq([key: Keys, value: Str(Text)])],
   syslog |-> [name: Str(Names), facility: Nat, severity: Nat, hostname: {"none", "local"},
               program: Programs \cup {<<>>}, procId: BOOLEAN,
               transport: {Null} \cup Socket, blocks: Nat]]

TypeOK ==
  /\ pc \in Contexts \cup {"start", "check", "done", "failed"}
  /\ DOMAIN seen = Contexts /\ \A c \in Contexts : seen[c] \subseteq Tags[c]
  /\ nOut \in 0..MaxOutputs
  /\ fmt \in [DOMAIN FmtDefault -> BOOLEAN]
  /\ \A k \in AllKinds : outputs[k] \in Seq(OutputType[k])
  /\ out = Null \/ \E k \in AllKinds : out \in OutputType[k]
  /\ sock \in {Null} \cup Socket

-----------------------------------------------------------------------------
(* Properties                                                              *)

(***************************************************************************)
(* Refinement of ConfigSpec: the constructor publishes nothing until       *)
(* check_validity() has passed, and what it publishes satisfies every rule *)
(* of the specification: ports in 1..65535, valid addresses, non-empty     *)
(* required strings, syslog priority in range and a transport present, at  *)
(* most one <print>, at least one output, names unique across all kinds.   *)
(* It covers every parse_* check together with check_validity().          *)
(***************************************************************************)
AbsResult ==
  [state  |-> CASE pc = "done"   -> "built"
                [] pc = "failed" -> "failed"
                [] OTHER         -> "none",
   config |-> IF pc = "done" THEN [format |-> fmt, outputs |-> outputs] ELSE Null]

Abs == INSTANCE ConfigSpec WITH result <- AbsResult

Refines == Abs!Spec

\* the mapping from keys to the value of the first block that named the key
FirstWins(log) ==
  [k \in {log[i].key : i \in DOMAIN log} |->
     log[CHOOSE i \in DOMAIN log : log[i].key = k /\ \A j \in 1..(i - 1) : log[j].key # k].value]

(***************************************************************************)
(* <property> blocks of a <kafka> output are first-write-wins: after any   *)
(* number of blocks, some repeating a key, each key of the properties map *)
(* holds the value of the first block that named it (spec 4.3), for the   *)
(* output being parsed and for every parsed one.  It is about the emplace *)
(* in parse_kafka_property.                                                *)
(***************************************************************************)
FirstWriteWins ==
  \A r \in Range(outputs["kafka"]) \cup (IF pc \in {"kafka", "property"} THEN {out} ELSE {}) :
    r.properties = FirstWins(r.log)

(***************************************************************************)
(* A parsed <syslog> output was built from exactly one <tcp> or <udp>      *)
(* block: a <transport> holding both is rejected rather than letting the  *)
(* second socket replace the first.  It is about the socket check at the  *)
(* top of parse_syslog_transport's loop.                                   *)
(***************************************************************************)
SingleTransport ==
  \A r \in Range(outputs["syslog"]) : r.blocks = 1

(***************************************************************************)
(* Every parsed <syslog> output carries a transport port in 1..65535, the *)
(* range parse_syslog_tcp/udp enforce on a <port> they read (spec 4.4).   *)
(* It is about the uninitialized `port` local those functions return when *)
(* the walker yields no <port> child.                                      *)
(***************************************************************************)
TransportPortInRange ==
  \A r \in Range(outputs["syslog"]) : r.transport.port \in 1..UINT16_MAX

\* the defaults the specification lists for the optional fields (spec 4.2)
SpecDefaults ==
  [send   |-> [proto |-> "UDP", addr |-> "127.0.0.1", port |-> 4739],
   file   |-> [align |-> TRUE, window |-> 300, calg |-> "none"],
   kafka  |-> [partition |-> PARTITION_UA, blocking |-> FALSE, perf |-> TRUE],
   syslog |-> [facility |-> 16, severity |-> 6, hostname |-> "none", procId |-> FALSE]]

\* the element of the document that sets each of those fields
ElementOf ==
  [proto |-> "protocol", addr |-> "ip", port |-> "port", align |-> "timeAlignment",
   window |-> "timeWindow", calg |-> "compression", partition |-> "partition",
   blocking |-> "blocking", perf |-> "performanceTuning", facility |-> "priority",
   severity |-> "priority", hostname |-> "hostname", procId |-> "procId"]

(***************************************************************************)
(* When a parse_<kind> appends its output to the Config, every optional   *)
(* field whose element the walker never yielded for that output holds the *)
(* default the specification lists, and not a zero or whatever the local  *)
(* held before.  It relates the output appended in a step to the elements *)
(* seen in the loop that built it; it is about the pre-set lines at the   *)
(* top of parse_send, parse_file, parse_kafka and parse_syslog.           *)
(***************************************************************************)
DefaultsApplied ==
  [][\A k \in DOMAIN SpecDefaults :
       Len(outputs'[k]) > Len(outputs[k]) =>
         \A f \in DOMAIN SpecDefaults[k] :
           ElementOf[f] \notin seen[k] => outputs'[k][Len(outputs'[k])][f] = SpecDefaults[k][f]]_vars
=============================================================================
