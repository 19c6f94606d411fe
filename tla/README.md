# TLA+ models of the JSON output's configuration parser

The JSON output plugin of IPFIXcol2 builds its configuration in one
constructor, `Config::Config(const char *params)`
(`src/src/plugins/output/json/src/Config.cpp`). The constructor parses the
plugin's XML `<params>` with libfds and fills in a `Config`. That Config holds
the format options and six collections of outputs: print, server, send, file,
kafka and syslog. Construction either returns a Config that satisfies every
rule or throws one wrapped exception. This project models that construction
and checks it against what construction promises.

## Parts of the system and how they interact

| Part | Code | Model |
|---|---|---|
| XML set-up and exception wrapping | `Config::Config` 1029-1056 | `ConfigParser`: `XmlParse`, `Throw` |
| Format defaults and options | `default_set` 956-977, `parse_params` 893-951 | `Init`, `ParamsChoice`, `ParamsFlag`, `ParamsOutputs`, `ParamsEnd` |
| Output dispatch | `parse_outputs` 854-883 | `OutputsNext`, `OutputsEnd`, `Unexpected` |
| print, server, send, file | `parse_print` ... `parse_file` 318-518 | `Parse<Kind>` (one disjunct per case) and `<Kind>End` (post-loop checks, push_back) |
| kafka and its `<property>` | 527-639 | `ParseKafka`, `KafkaEnd`, `ParseProperty`, `PropertyEnd` |
| syslog, priority, transport, tcp/udp | 641-847 | `ParseSyslog`, `SyslogEnd`, `ParsePriority`, `PriorityEnd`, `TransportNext`, `TransportEnd`, `ParseSocket`, `SocketEnd` |
| Cross-output validation | `check_validity` 983-1027 | `CheckValidity`, `NamesCollide` |
| Primitive checks | `check_or` 285-300, `is_syslog_ascii` 302-309, `check_ip`, `parse_version` 1063-1092 | `ChoiceOk`, `IsSyslogAscii`, constant `ValidIps`, module `ParseVersion` |
| `<partition>` conversion | `parse_kafka` 590-601 (`strcasecmp`, `sscanf("%i%c")`, `value < 0`) | module `PartitionScan`, fed into ConfigParser as `PartitionOf` |
| libfds walker | not in this repository | the environment: `Yield`, `AtEnd`, `Required`, `Multi`, `EnforceSchema` |

The parsers call each other in a strict nest:
Config → parse_params → parse_outputs → parse_<kind> → sub-parsers. Each one
runs an `fds_xml_next` loop over its own context. In the model, `pc` names the
context whose loop is running. `seen[ctx]` records the tags that loop has
already yielded. `Enter` and `Leave` push or pop a nested context. Every
exception path leads to `Throw`, which sets `pc` to "failed". The whole
construction is sequential: there are no threads and no callbacks, and no I/O
is done before it returns. The hard parts are therefore not interleavings.
They are the following:
- which documents the walker can yield;
- the order in which elements arrive;
- repeated elements;
- locals used before they are assigned;
- numeric boundaries.

## Modules

- **ConfigSpec**: the abstract promise. `result` goes from "none" to "failed",
  or to "built" together with a config satisfying `ValidConfig`. That config
  must meet these rules:
  - ports 1..65535;
  - non-empty names;
  - IP literals;
  - partitions and broker versions;
  - syslog priority ranges and a printable program of at most 48 characters;
  - exactly one transport;
  - at least one output, at most one print;
  - names unique across all kinds.
- **ConfigParser**: the detailed machine, one action per loop case or post-loop
  block of the code. Inputs come from small constant sets with `\E`.
  - Conversions are modelled by what they do, through tables:
    - `Lower` stands for the case folding of `strcasecmp`;
    - `PartitionOf` gives the outcomes of the `<partition>` case; the MC
      module computes it with `PartitionScan`;
    - `ValidIps` stands for `inet_pton`;
    - `AcceptedVersions` stands for `parse_version`, which is modelled in
      detail in its own module.
  - Undefined behaviour is a nondeterministic choice:
    - the uninitialized `port` of tcp/udp is drawn from `Indeterminate16`;
    - the uninitialized `blocking` flags are any BOOLEAN.
  - Ghost history: kafka properties keep a `log` of every block, and syslog
    keeps the `blocks` it saw.
  - `DefaultsApplied` is an action property. In every step that appends an
    output, each optional field whose element the walker never yielded for
    that output must hold the default listed in spec 4.2 (`SpecDefaults`,
    written from the spec, not from the code). It relates the appended
    record to `seen` of the loop that built it.
  - `Refines` checks, through `INSTANCE ConfigSpec WITH result <- AbsResult`,
    that the machine implements ConfigSpec. `AbsResult` hides the Config
    until `pc = "done"`, so a partly filled Config is never visible.
- **MCConfigParser**: model values for TLC: the case-fold table, the
  `<partition>` outcomes computed by `PS == INSTANCE PartitionScan`, and
  syslog program strings of length 48, 49 and with a space.
- **PartitionScan**: the `<partition>` case of parse_kafka as operators over
  a text (a sequence of characters). `IsUnassigned` is the `strcasecmp`.
  `SScanf` models `sscanf("%" SCNi32 "%c")` as glibc runs it:
  - `%i` skips white space, takes a sign and picks the base from the prefix
    (`0x` hex, `0` octal, else decimal);
  - the number is converted as a long and stored into the `int32_t` by
    truncation, computed modulo 2^32 in two 16-bit halves (`MulAdd`,
    `Negate`, `ToInt32`) so that TLC's integers never overflow;
  - `%c` matches exactly when a character is left;
  - `"0x"` with no hex digit is a matching failure by the C standard, but
    glibc stores 0: both are outcomes.

  `PartitionBad` is the code's `!= 1 || value < 0`, and `PartitionOf` is
  the whole case.
- **MCPartitionScan**: runs the case once (`Convert`) on every text up to a
  length, plus listed longer texts. It compares the result with a reference
  written independently: white space, one sign and a C integer literal,
  whose value is computed exactly and saturates once it passes INT32_MAX.
- **ParseVersion**: `parse_version` as a stream machine. `Extract` models
  `operator>>` into an int:
  - it skips white space;
  - it reads a sign and the digits;
  - it fails when there are no digits or on overflow;
  - it sets eof at the end.

  It is checked against a recursive reference grammar over every string up
  to the bound.

## Runs

| Run | Checks | Shows |
|---|---|---|
| version_plain | TypeOK, AgreesWithGrammar | on all 29,524 strings of ≤ 9 chars over `1 . x`, parse_version agrees with the specified grammar (field counts 0..5, empty fields, trailing dot) |
| version_signs (violation) | AgreesWithGrammar | `"1. 1"`, `"+1.1"` and `"-0.1"` are accepted: operator>> skips white space and takes signs |
| outputs_core | TypeOK, Refines | up to two print/server/send/file outputs under the schema: fail or a valid Config; port 0/65535/65536, empty/invalid IPs, case-insensitive choices, window bound, duplicate names and double print |
| kafka | Refines, FirstWriteWins, DefaultsApplied | partition parsing, version fallback and repeated property keys; `emplace` keeps the first value; an omitted partition, blocking or performanceTuning keeps the specified default |
| syslog | Refines, SingleTransport, DefaultsApplied | priority ranges, a 48/49-char program, hostname choice, tcp/udp ports; exactly one socket is built; an omitted priority, hostname or procId keeps the specified default |
| lenient_walker | Refines, DefaultsApplied | with a walker that does not enforce required elements, print/send/file still hold their rules (send's IP is checked after the loop), and every send/file field the document leaves out holds its specified default |
| mixed | Refines | up to three outputs of all six kinds in one document (4.2M states, about 75 s): a name shared by any two kinds is refused and a second print is refused. Whether a Config of three outputs is actually built is not asserted |
| noname (violation) | Refines | an empty `<name>` is accepted for kafka and for syslog (the trace shows kafka; with either kind alone a trace exists too) |
| syslog_noport (violation) | TransportPortInRange | without the schema, a tcp/udp block without `<port>` yields a socket with an uninitialized port |
| server_noport (violation) | Refines | without the schema, a server without `<port>` is accepted with port 0 |
| partition_plain | AcceptsEveryPartition, AcceptsOnlyPartitionsOrOverflow | on all 1,555 texts of ≤ 4 chars over `0 1 8 + - space` and twelve longer ones (hex, octal, mixed-case "unassigned", `"0x"`, and two past 2^32), every partition is accepted with its value, and nothing else is accepted except a number past INT32_MAX (wrapped) or a bare `"0x"` (glibc stores 0). This covers the `%c` trailing-character guard (`"08"` and `"1 "` are refused), octal (`"010"` is 8), signs (`"-0"` is 0), white space, and over-rejection (a refused `"0"`) |
| partition_wrap (violation) | AcceptsExactlyPartitions | `"4294967297"` is accepted as partition 1: the long wraps into the int32_t and the `value < 0` check sees 1 |

Each property of a passing run has a mutant in PROJECT.json. Each mutant is a
plausible bug in the code and is killed by its run. Examples:
- a port check that misses 0 or 65535+1;
- an inverted version check;
- an overwriting `emplace`;
- a forgotten "multiple transports" check;
- a name check that skips the syslog collection;
- a partition check that ignores the `%c` conversion, or refuses 0;
- a pre-set that is missing or wrong (kafka `perf_tuning` off, syslog
  priority zero-initialized, send protocol TCP, file alignment off).

**Bounds.** Each run covers one kind or a small mix, so that the
cross-product stays within minutes. The bounds are:
- up to two outputs per run, which is enough for duplicate names and for
  the second print. The mixed run takes three outputs over all six kinds and
  three names, so that a clash between two outputs can sit beside a third
  output that is fine. Names are strings compared only for equality, but TLC
  applies symmetry only to model values, so no symmetry set is used;
- two kafka properties, enough for a repeated key;
- one syslog with any number of transport blocks, limited by the non-multi
  rule;
- value sets chosen at the boundaries: ports 0, 65535 and 65536, windows
  UINT32_MAX and UINT32_MAX+1, facility 23/24, severity 7/8;
- `<partition>` texts: every text of up to 4 characters, which covers every
  combination of white space, sign, leading zero, a digit that is not octal,
  and trailing characters. Hex, the sentinel and wrapping need longer texts,
  so these are listed (`MCExtra`, `MCWrap`). The kafka runs use the
  partition texts "Unassigned", "3", "-2", "3x" and "010", with outcomes
  computed by PartitionScan.

`UINT32_MAX` is a stand-in (1000), because TLC integers are 32-bit. `EnforceSchema` switches between
the libfds walker as the args_* tables configure it and a walker that yields
any element.

**Fairness.** None is assumed and no liveness is checked. Construction is
one synchronous call with no waiting, retry or message, so it can only stop
by returning or throwing. Its loops end because the document is finite: the
walker yields each non-multi element at most once and the multi elements up
to a bound. A termination property would then restate these bounds; no code
change short of the walker's own could break it. All runs set CHECK_DEADLOCK FALSE, because "done" and "failed"
are final states.

## Not modelled

- libfds itself: it is the environment.
- Config.hpp: it is absent. The field types are taken from how Config.cpp uses
  them.
- The destructor and the outputs' I/O.
- The exact text of error messages.
- Format options are restricted per run to a subset of the flags (`FmtFields`).
- `check_ip`: it is two calls of libc's `inet_pton` and stays the constant
  `ValidIps`. Its IPv6 grammar is libc's, not this repository's.
- The width of the syslog facility and severity fields (line 744): it is
  declared in Config.hpp, so the truncation hazard stays open.
- Which outcome of `"0x"` as a partition a build produces: it depends on
  the glibc version. PartitionScan keeps both, and
  `AcceptsOnlyPartitionsOrOverflow` admits the acceptance as 0 by name.
- Over-rejection at the port and window bounds (refusing 65535 or
  UINT32_MAX): `Refines` only says that what is accepted is valid. The
  `static_cast`s to uint16_t/uint32_t are modelled as the identity. That is
  exact, because each range check comes before its cast.

## Plan for later sittings

Done: the defaults of spec 4.2 (`DefaultsApplied`), `sscanf("%i%c")` for `<partition>` (PartitionScan), and kafka with
syslog in one document, widened to all six kinds and three outputs (run mixed).

1. Model the width of the syslog facility/severity fields, once their type
   is settled, to check the truncation hazard at line 744. Config.hpp is not
   in the repository, so for now the value is kept unreduced.
2. `AcceptedVersions` stays a table. Its two entries ("1.1" accepted, "1"
   refused) are strings the version_plain run covers, and that run shows
   parse_version gives exactly these verdicts. A pure operator form of the
   stream machine would only repeat it.
3. Cover all format flags in one run. Every flag is one independent
   assignment in the same switch, so the runs use one `check_or` flag and
   one boolean flag. All eleven at once multiply the state space by 3^11.
