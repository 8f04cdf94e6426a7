-------------------------------- MODULE Config -------------------------------
(***************************************************************************)
(* From a configuration file and the command line to the settings the       *)
(* daemon runs with: src/config.rs, and what main() and run() of            *)
(* src/main.rs still change or pick afterwards.                             *)
(*                                                                          *)
(* Raw settings are a function on the keys that are set.  A duration or a   *)
(* size is a number and a unit as written, "bare" where there is none; a    *)
(* ratio is a percentage.  A process_name is what is left of it without the *)
(* placeholder of the worker's number and the separators around it.  Which  *)
(* error a file is refused with is left out.                                *)
(***************************************************************************)
EXTENDS Integers, Sequences, SequencesExt

CONSTANTS
    None,   \* Option::None
    Bad,    \* a value that does not parse, or the error a file is refused with
    U64,    \* u64::MAX, scaled down
    Kilo    \* 1024, scaled down

ASSUME NumbersAssumption == U64 \in Nat /\ Kilo \in Nat \ {0}

(* RawProgram: what a [[program]] entry may set, every other key of it is dropped. *)
ProgramKeys ==
    {"mode", "command", "process_name", "max_workers", "min_workers", "shell", "queue",
     "queue_connection", "queue_name", "autostart", "autorestart", "slo_drain_time", "max"}

(* RawConfig, less the [[program]] entries. *)
Keys ==
    ProgramKeys \union
    {"poll_interval", "drain_timeout", "ram_budget", "ram_headroom", "alpha_mu",
     "alpha_lambda", "hysteresis", "cooldown_ticks", "spike_backlog", "depth_threshold",
     "ram_ratio_cap", "swap_ratio_cap", "metrics_addr", "management", "management_url"}

(* The types of RawConfig, as far as the loop steers by them: a value has its key's type
   or does not parse. *)
Counts == {"max_workers", "min_workers", "max", "hysteresis", "cooldown_ticks",
           "spike_backlog", "depth_threshold"}

Texts == {"poll_interval", "drain_timeout", "slo_drain_time", "ram_budget", "ram_headroom"}

Text == [n : Nat \union {None}, unit : STRING]

IsValue(key, value) ==
    /\ key \in Counts => value \in Nat \union {Bad}
    /\ key \in Texts => value \in Text \union {Bad}

IsSettings(settings) == \A k \in DOMAIN settings : IsValue(k, settings[k])

IsFile(file) ==
    IF file.format = "toml"
    THEN /\ IsSettings(file.global)
         /\ Len(file.programs) \in Nat /\ DOMAIN file.programs = 1..Len(file.programs)
         /\ \A i \in DOMAIN file.programs : IsSettings(file.programs[i])
    ELSE /\ Len(file.lines) \in Nat /\ DOMAIN file.lines = 1..Len(file.lines)
         /\ \A i \in DOMAIN file.lines : IsValue(file.lines[i].key, file.lines[i].value)

-----------------------------------------------------------------------------
(* Reading a file *)

Only(settings, keys) == [k \in DOMAIN settings \intersect keys |-> settings[k]]

(* Unknown keys are dropped, in the file and in an entry; a value of the wrong type
   refuses the file. *)
ParseToml(file) ==
    LET global   == Only(file.global, Keys)
        programs == [i \in DOMAIN file.programs |-> Only(file.programs[i], ProgramKeys)]
        HasBad(s) == \E k \in DOMAIN s : s[k] = Bad
    IN  IF HasBad(global) \/ \E i \in DOMAIN programs : HasBad(programs[i]) THEN Bad
        ELSE [global |-> global, programs |-> programs]

(* Section headers and unknown keys are skipped, whatever section a key stands in its
   last value counts; a number or a boolean that does not parse ends it all. *)
ParseConf(lines) ==
    LET known == {i \in DOMAIN lines : lines[i].key \in Keys}
        last(k) == Max({i \in known : lines[i].key = k})
    IN  IF \E i \in known : lines[i].value = Bad THEN Bad
        ELSE [global |-> [k \in {lines[i].key : i \in known} |-> lines[last(k)].value],
              programs |-> <<>>]

Parse(file) == IF file.format = "toml" THEN ParseToml(file) ELSE ParseConf(file.lines)

(* Program fields override the shared ones, key by key. *)
MergeProgram(global, entry) ==
    [k \in DOMAIN global \union DOMAIN entry |->
        IF k \in DOMAIN entry THEN entry[k] ELSE global[k]]

-----------------------------------------------------------------------------
(* Values *)

Setting(raw, key, default) == IF key \in DOMAIN raw THEN raw[key] ELSE default

Required(raw, key) == key \in DOMAIN raw /\ raw[key] # ""

(* checked_mul *)
Times(n, factor) == IF n > U64 \div factor THEN Bad ELSE n * factor

ParseDuration(d) ==
    IF d.n = None THEN Bad
    ELSE CASE d.unit \in {"bare", "s"} -> Times(d.n, 1)
           [] d.unit = "m"         -> Times(d.n, 60)
           [] d.unit = "h"         -> Times(d.n, 3600)
           [] OTHER                -> Bad

ParseBytes(b) ==
    IF b.n = None THEN Bad
    ELSE CASE b.unit \in {"bare", "B"} -> Times(b.n, 1)
           [] b.unit = "KB"        -> Times(b.n, Kilo)
           [] b.unit = "MB"        -> Times(b.n, Kilo * Kilo)
           [] b.unit = "GB"        -> Times(b.n, Kilo * Kilo * Kilo)
           [] b.unit = "TB"        -> Times(b.n, Kilo * Kilo * Kilo * Kilo)
           [] OTHER                -> Bad

DurationOf(raw, key, default) ==
    IF key \in DOMAIN raw THEN ParseDuration(raw[key]) ELSE default

BytesOf(raw, key) == IF key \in DOMAIN raw THEN ParseBytes(raw[key]) ELSE None

DefaultHeadroom == 2 * Kilo * Kilo * Kilo

-----------------------------------------------------------------------------
(* validate() *)

(* The legacy key is read only where max_workers is not set. *)
MaxWorkers(raw) == Setting(raw, "max_workers", Setting(raw, "max", 0))

MinWorkers(raw) == Setting(raw, "min_workers", 0)

ModeOf(raw) == Setting(raw, "mode", "slo")

NamesGiven(raw) ==
    \A key \in {"command", "queue_connection", "queue_name"} : Required(raw, key)

PoolIsSized(raw) == MaxWorkers(raw) > 0 /\ MinWorkers(raw) <= MaxWorkers(raw)

BackendExists(raw) == Setting(raw, "queue", "rabbitmq") = "rabbitmq"

TimesParse(raw) ==
    /\ DurationOf(raw, "poll_interval", 10) # Bad
    /\ DurationOf(raw, "drain_timeout", 30) # Bad
    /\ DurationOf(raw, "slo_drain_time", None) # Bad
    /\ BytesOf(raw, "ram_budget") # Bad
    /\ BytesOf(raw, "ram_headroom") # Bad

(* slo needs its drain time and at most one way to size the RAM. *)
ModeIsServed(raw) ==
    \/ ModeOf(raw) = "threshold"
    \/ /\ ModeOf(raw) = "slo"
       /\ "slo_drain_time" \in DOMAIN raw
       /\ ~{"ram_budget", "ram_headroom"} \subseteq DOMAIN raw

RatiosFit(raw) ==
    \A key \in {"swap_ratio_cap", "alpha_mu", "alpha_lambda"} :
        key \in DOMAIN raw => raw[key] \in 1..100

Headroom(raw) ==
    IF ModeOf(raw) = "slo" /\ {"ram_budget", "ram_headroom"} \intersect DOMAIN raw = {}
    THEN DefaultHeadroom
    ELSE BytesOf(raw, "ram_headroom")

(* Settings nothing steers by (queue, shell, autostart, autorestart) and the addresses
   of the broker are checked above, and left out here. *)
Validate(raw) ==
    IF /\ NamesGiven(raw) /\ PoolIsSized(raw) /\ BackendExists(raw)
       /\ TimesParse(raw) /\ ModeIsServed(raw) /\ RatiosFit(raw)
    THEN [mode            |-> ModeOf(raw),
          process_name    |-> Setting(raw, "process_name", "consumer"),
          max_workers     |-> MaxWorkers(raw),
          min_workers     |-> MinWorkers(raw),
          poll_interval   |-> DurationOf(raw, "poll_interval", 10),
          drain_timeout   |-> DurationOf(raw, "drain_timeout", 30),
          slo_drain_time  |-> DurationOf(raw, "slo_drain_time", None),
          ram_budget      |-> BytesOf(raw, "ram_budget"),
          ram_headroom    |-> Headroom(raw),
          hysteresis      |-> Setting(raw, "hysteresis", 1),
          cooldown_ticks  |-> Setting(raw, "cooldown_ticks", 2),
          spike_backlog   |-> Setting(raw, "spike_backlog", 1000),
          depth_threshold |-> Setting(raw, "depth_threshold", 40),
          ram_ratio_cap   |-> Setting(raw, "ram_ratio_cap", 90),
          metrics_addr    |-> Setting(raw, "metrics_addr", None)]
    ELSE Bad

(* One program that does not validate refuses the whole file. *)
LoadAll(file) ==
    LET raw     == Parse(file)
        entries == IF raw.programs = <<>> THEN <<raw.global>>
                   ELSE [i \in DOMAIN raw.programs |-> MergeProgram(raw.global, raw.programs[i])]
        configs == [i \in DOMAIN entries |-> Validate(entries[i])]
    IN  IF raw = Bad THEN Bad
        ELSE IF \E i \in DOMAIN configs : configs[i] = Bad THEN Bad ELSE configs

-----------------------------------------------------------------------------
(* What the daemon makes of it *)

(* main(): --mode replaces every program's mode once the file is accepted. *)
OverrideMode(configs, mode) ==
    IF mode = None THEN configs
    ELSE [i \in DOMAIN configs |-> [configs[i] EXCEPT !.mode = mode]]

Settings(file, mode) ==
    LET configs == LoadAll(file)
    IN  IF configs = Bad \/ mode \notin {None, "slo", "threshold"} THEN Bad
        ELSE OverrideMode(configs, mode)

(* program_label() *)
Label(config) ==
    IF config.process_name = "" THEN "program" ELSE config.process_name

(* Mutant: the 120 s stand-in for a drain time that validate() never asked for is gone. *)
ParamsUnguarded(config) ==
    IF config.mode = "slo"
    THEN Only(config, {"mode", "min_workers", "max_workers", "hysteresis", "cooldown_ticks",
                       "spike_backlog", "slo_drain_time"})
    ELSE Only(config, {"mode", "min_workers", "max_workers", "cooldown_ticks",
                       "depth_threshold", "ram_ratio_cap"})

(* SloParams or ThresholdParams, as run() fills them in every tick. *)
Params(config) ==
    IF config.mode = "slo"
    THEN [Only(config, {"mode", "min_workers", "max_workers", "hysteresis", "cooldown_ticks",
                        "spike_backlog", "slo_drain_time"})
             EXCEPT !.slo_drain_time = IF @ = None THEN 120 ELSE @]
    ELSE Only(config, {"mode", "min_workers", "max_workers", "cooldown_ticks",
                       "depth_threshold", "ram_ratio_cap"})

(* Mutant: the default that validate() gives slo programs is taken to be there. *)
RamPolicyAsLoaded(config) ==
    IF config.ram_budget # None
    THEN [kind |-> "budget", bytes |-> config.ram_budget]
    ELSE [kind |-> "headroom", bytes |-> config.ram_headroom]

(* The budget, or the headroom with the default of ram_pool_budget. *)
RamPolicy(config) ==
    IF config.ram_budget # None
    THEN [kind |-> "budget", bytes |-> config.ram_budget]
    ELSE [kind  |-> "headroom",
          bytes |-> IF config.ram_headroom = None THEN DefaultHeadroom ELSE config.ram_headroom]

(* What run() would take from this program, were it the first. *)
HostSettings(config) ==
    [poll_interval |-> config.poll_interval, drain_timeout |-> config.drain_timeout,
     ram |-> RamPolicy(config), metrics_addr |-> config.metrics_addr]

=============================================================================
