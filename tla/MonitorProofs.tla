---------------------------- MODULE MonitorProofs -----------------------------
(***************************************************************************)
(* What module Monitor promises: of every file the daemon accepts, that it  *)
(* can be run, in whatever mode, and that its entries agree about the host  *)
(* settings; and of every scrape, that the view it leaves shows the board   *)
(* of one tick.                                                             *)
(***************************************************************************)
EXTENDS Monitor, SumProofs, SequenceTheorems

-----------------------------------------------------------------------------
(* Values *)

LEMMA DurationType ==
    ASSUME NEW d \in Text
    PROVE  ParseDuration(d) \in Nat \union {Bad}
<1>1. \A n \in Nat : Times(n, 1) \in Nat \union {Bad}
    BY DEF Times
<1>2. \A n \in Nat : Times(n, 60) \in Nat \union {Bad}
    BY DEF Times
<1>3. \A n \in Nat : Times(n, 3600) \in Nat \union {Bad}
    BY DEF Times
<1>4. CASE d.n = None
    BY <1>4 DEF ParseDuration
<1>5. CASE d.n # None
    <2>1. PICK n \in Nat, unit \in STRING : d.n = n /\ d.unit = unit
        BY <1>5 DEF Text
    <2>2. ParseDuration(d) = CASE unit \in {"bare", "s"} -> Times(n, 1)
                               [] unit = "m"         -> Times(n, 60)
                               [] unit = "h"         -> Times(n, 3600)
                               [] OTHER              -> Bad
        BY <1>5, <2>1 DEF ParseDuration
    <2>3. CASE unit \in {"bare", "s"}
        BY <1>1, <2>2, <2>3
    <2>4. CASE unit = "m"
        BY <1>2, <2>2, <2>4
    <2>5. CASE unit = "h"
        BY <1>3, <2>2, <2>5
    <2>6. CASE unit \notin {"bare", "s", "m", "h"}
        BY <2>2, <2>6
    <2>7. QED
        BY <2>3, <2>4, <2>5, <2>6
<1>6. QED
    BY <1>4, <1>5

(* A non-empty set of numbers up to n has a greatest one. *)
LEMMA MaxFacts ==
    ASSUME NEW n \in Nat, NEW S \in SUBSET (1..n), S # {}
    PROVE  Max(S) \in S /\ \A y \in S : y <= Max(S)
<1> DEFINE T == {n - x : x \in S}
<1>1. T \subseteq Nat /\ T # {}
    <2>1. \A x \in S : x \in Int /\ n - x \in Nat
        OBVIOUS
    <2>2. PICK x \in S : TRUE
        OBVIOUS
    <2>3. n - x \in T
        OBVIOUS
    <2>4. QED
        BY <2>1, <2>3
<1>2. PICK m \in T : \A y \in T : ~(<<y, m>> \in OpToRel(<, Nat))
    BY <1>1, NatLessThanWellFounded, WFMin
<1>3. \A y \in T : ~(y < m)
    BY <1>1, <1>2 DEF OpToRel
<1>4. PICK x \in S : m = n - x
    BY <1>2
<1>5. \A y \in S : x >= y
    BY <1>3, <1>4
<1>6. Max(S) \in S /\ \A y \in S : Max(S) >= y
    BY <1>5 DEF Max
<1>7. QED
    BY <1>6

-----------------------------------------------------------------------------
(* Reading a file *)

(* Settings whose values parse as far as RawConfig's types go. *)
Sound(settings) == \A k \in DOMAIN settings : IsValue(k, settings[k]) /\ settings[k] # Bad

(* Whatever is read, a [[program]] entry only ever sets the keys of RawProgram. *)
LEMMA ReadIsSound ==
    ASSUME NEW file, IsFile(file), Parse(file) # Bad
    PROVE  /\ Sound(Parse(file).global)
           /\ \E n \in Nat : /\ DOMAIN Parse(file).programs = 1..n
                             /\ n = 0 => Parse(file).programs = <<>>
           /\ \A i \in DOMAIN Parse(file).programs :
                 /\ Sound(Parse(file).programs[i])
                 /\ DOMAIN Parse(file).programs[i] \subseteq ProgramKeys
<1>1. CASE file.format = "toml"
    <2> DEFINE global   == Only(file.global, Keys)
               programs == [i \in DOMAIN file.programs |-> Only(file.programs[i], ProgramKeys)]
    <2>1. Parse(file) = ParseToml(file)
        BY <1>1 DEF Parse
    <2>2. /\ ParseToml(file) = [global |-> global, programs |-> programs]
          /\ \A k \in DOMAIN global : global[k] # Bad
          /\ \A i \in DOMAIN programs : \A k \in DOMAIN programs[i] : programs[i][k] # Bad
        BY <2>1 DEF ParseToml
    <2>3. IsSettings(file.global) /\ \A i \in DOMAIN file.programs : IsSettings(file.programs[i])
        BY <1>1 DEF IsFile
    <2>4. Sound(global)
        BY <2>2, <2>3 DEF Sound, Only, IsSettings
    <2>5. \A i \in DOMAIN programs : Sound(programs[i]) /\ DOMAIN programs[i] \subseteq ProgramKeys
        BY <2>2, <2>3 DEF Sound, Only, IsSettings
    <2>6. /\ Len(file.programs) \in Nat /\ DOMAIN programs = 1..Len(file.programs)
          /\ Len(file.programs) = 0 => programs = <<>>
        <3>1. Len(file.programs) \in Nat /\ DOMAIN programs = 1..Len(file.programs)
            BY <1>1 DEF IsFile
        <3>2. ASSUME Len(file.programs) = 0 PROVE programs = <<>>
            <4>1. DOMAIN file.programs = {} /\ DOMAIN <<>> = {}
                BY <1>1, <3>2 DEF IsFile
            <4>2. QED
                BY <4>1
        <3>3. QED
            BY <3>1, <3>2
    <2>7. Parse(file).global = global /\ Parse(file).programs = programs
        BY <2>1, <2>2
    <2> HIDE DEF global, programs
    <2>8. QED
        BY <2>4, <2>5, <2>6, <2>7
<1>2. CASE file.format # "toml"
    <2> DEFINE lines == file.lines
               known == {i \in DOMAIN lines : lines[i].key \in Keys}
               of(k) == {i \in known : lines[i].key = k}
               global == [k \in {lines[i].key : i \in known} |-> lines[Max(of(k))].value]
    <2>1. Parse(file) = ParseConf(lines)
        BY <1>2 DEF Parse
    <2>2. /\ ParseConf(lines) = [global |-> global, programs |-> <<>>]
          /\ \A i \in known : lines[i].value # Bad
        BY <2>1 DEF ParseConf
    <2>3. ASSUME NEW k \in DOMAIN global
          PROVE  IsValue(k, global[k]) /\ global[k] # Bad
        <3>1. Len(lines) \in Nat /\ of(k) \subseteq 1..Len(lines) /\ of(k) # {}
            BY <1>2, <2>3 DEF IsFile
        <3>2. Max(of(k)) \in of(k)
            BY <3>1, MaxFacts
        <3>3. lines[Max(of(k))].key = k /\ Max(of(k)) \in known
            BY <3>2
        <3>4. IsValue(lines[Max(of(k))].key, lines[Max(of(k))].value)
            BY <1>2, <3>3 DEF IsFile
        <3>5. QED
            BY <2>2, <3>3, <3>4
    <2>4. Sound(global)
        BY <2>3 DEF Sound
    <2>5. Parse(file).global = global /\ Parse(file).programs = <<>>
        BY <2>1, <2>2
    <2>6. DOMAIN Parse(file).programs = {} /\ {} = 1..0
        BY <2>5
    <2> HIDE DEF global
    <2>7. QED
        BY <2>4, <2>5, <2>6
<1>3. QED
    BY <1>1, <1>2

LEMMA MergeIsSound ==
    ASSUME NEW global, NEW entry, Sound(global), Sound(entry)
    PROVE  Sound(MergeProgram(global, entry))
BY DEF Sound, MergeProgram

-----------------------------------------------------------------------------
(* What is accepted *)

SteeredBy == {"mode", "min_workers", "max_workers", "hysteresis", "cooldown_ticks",
              "spike_backlog", "slo_drain_time", "depth_threshold", "ram_ratio_cap"}

(* A program as validate() leaves it, whatever mode it was checked for. *)
Fit(config) ==
    /\ SteeredBy \subseteq DOMAIN config
    /\ config.mode \in {"slo", "threshold"}
    /\ config.min_workers \in Nat /\ config.max_workers \in Nat \ {0}
    /\ config.min_workers <= config.max_workers
    /\ config.hysteresis \in Nat /\ config.cooldown_ticks \in Nat
    /\ config.spike_backlog \in Nat /\ config.depth_threshold \in Nat
    /\ config.slo_drain_time \in Nat \union {None}

LEMMA FitIsRunnable ==
    ASSUME NEW config, Fit(config)
    PROVE  IsRunnable(Params(config))
<1>1. CASE config.mode = "slo"
    <2> DEFINE kept == Only(config, {"mode", "min_workers", "max_workers", "hysteresis",
                                     "cooldown_ticks", "spike_backlog", "slo_drain_time"})
    <2>1. /\ kept.mode = "slo" /\ kept.min_workers = config.min_workers
          /\ kept.max_workers = config.max_workers /\ kept.hysteresis = config.hysteresis
          /\ kept.cooldown_ticks = config.cooldown_ticks
          /\ kept.spike_backlog = config.spike_backlog
          /\ kept.slo_drain_time = config.slo_drain_time
          /\ "slo_drain_time" \in DOMAIN kept
        BY <1>1 DEF Fit, SteeredBy, Only
    <2>2. Params(config) = [kept EXCEPT !.slo_drain_time = IF @ = None THEN 120 ELSE @]
        BY <1>1 DEF Params
    <2>3. QED
        BY <2>1, <2>2 DEF Fit, IsRunnable
<1>2. CASE config.mode = "threshold"
    <2> DEFINE kept == Only(config, {"mode", "min_workers", "max_workers", "cooldown_ticks",
                                     "depth_threshold", "ram_ratio_cap"})
    <2>1. /\ kept.mode = "threshold" /\ kept.min_workers = config.min_workers
          /\ kept.max_workers = config.max_workers
          /\ kept.cooldown_ticks = config.cooldown_ticks
          /\ kept.depth_threshold = config.depth_threshold
        BY <1>2 DEF Fit, SteeredBy, Only
    <2>2. Params(config) = kept
        BY <1>2 DEF Params
    <2>3. QED
        BY <2>1, <2>2 DEF Fit, IsRunnable
<1>3. QED
    BY <1>1, <1>2 DEF Fit

(* What validate() lets through is fit for the mode it was checked for, and for the
   other. *)
LEMMA AcceptedIsFit ==
    ASSUME NEW raw, Sound(raw), Validate(raw) # Bad
    PROVE  /\ Fit(Validate(raw))
           /\ \A mode \in {"slo", "threshold"} : Fit([Validate(raw) EXCEPT !.mode = mode])
<1> DEFINE config == Validate(raw)
<1>1. PoolIsSized(raw) /\ TimesParse(raw) /\ ModeIsServed(raw)
    BY DEF Validate
<1>2. /\ SteeredBy \subseteq DOMAIN config
      /\ config.mode = ModeOf(raw)
      /\ config.min_workers = MinWorkers(raw) /\ config.max_workers = MaxWorkers(raw)
      /\ config.hysteresis = Setting(raw, "hysteresis", 1)
      /\ config.cooldown_ticks = Setting(raw, "cooldown_ticks", 2)
      /\ config.spike_backlog = Setting(raw, "spike_backlog", 1000)
      /\ config.depth_threshold = Setting(raw, "depth_threshold", 40)
      /\ config.slo_drain_time = DurationOf(raw, "slo_drain_time", None)
    BY DEF Validate, SteeredBy
<1>3. \A key \in Counts, default \in Nat : Setting(raw, key, default) \in Nat
    BY DEF Sound, IsValue, Setting
<1>4. MinWorkers(raw) \in Nat /\ MaxWorkers(raw) \in Nat
    BY <1>3 DEF MinWorkers, MaxWorkers, Counts
<1>5. MaxWorkers(raw) # 0 /\ MinWorkers(raw) <= MaxWorkers(raw)
    BY <1>1, <1>4 DEF PoolIsSized
<1>6. config.slo_drain_time \in Nat \union {None}
    <2>1. CASE "slo_drain_time" \in DOMAIN raw
        <3>1. raw["slo_drain_time"] \in Text
            BY <2>1 DEF Sound, IsValue, Texts
        <3>2. config.slo_drain_time = ParseDuration(raw["slo_drain_time"])
            BY <1>2, <2>1 DEF DurationOf
        <3>3. QED
            BY <1>1, <1>2, <3>1, <3>2, DurationType DEF TimesParse
    <2>2. CASE "slo_drain_time" \notin DOMAIN raw
        BY <1>2, <2>2 DEF DurationOf
    <2>3. QED
        BY <2>1, <2>2
<1>7. ModeOf(raw) \in {"slo", "threshold"}
    BY <1>1 DEF ModeIsServed
<1>8. /\ config.hysteresis \in Nat /\ config.cooldown_ticks \in Nat
      /\ config.spike_backlog \in Nat /\ config.depth_threshold \in Nat
    <2>1. {"hysteresis", "cooldown_ticks", "spike_backlog", "depth_threshold"} \subseteq Counts
        BY DEF Counts
    <2>2. /\ Setting(raw, "hysteresis", 1) \in Nat /\ Setting(raw, "cooldown_ticks", 2) \in Nat
          /\ Setting(raw, "spike_backlog", 1000) \in Nat
          /\ Setting(raw, "depth_threshold", 40) \in Nat
        BY <1>3, <2>1
    <2>3. QED
        BY <1>2, <2>2
<1>9. Fit(config)
    BY <1>2, <1>4, <1>5, <1>6, <1>7, <1>8 DEF Fit
<1>10. \A mode \in {"slo", "threshold"} : Fit([config EXCEPT !.mode = mode])
    <2> TAKE mode \in {"slo", "threshold"}
    <2> DEFINE other == [config EXCEPT !.mode = mode]
    <2> HIDE DEF config
    <2>1. /\ DOMAIN other = DOMAIN config
          /\ other.mode = mode
          /\ \A k \in DOMAIN config \ {"mode"} : other[k] = config[k]
        BY <1>9 DEF Fit, SteeredBy
    <2>2. /\ other.min_workers = config.min_workers /\ other.max_workers = config.max_workers
          /\ other.hysteresis = config.hysteresis
          /\ other.cooldown_ticks = config.cooldown_ticks
          /\ other.spike_backlog = config.spike_backlog
          /\ other.depth_threshold = config.depth_threshold
          /\ other.slo_drain_time = config.slo_drain_time
        BY <1>9, <2>1 DEF Fit, SteeredBy
    <2>3. QED
        BY <1>9, <2>1, <2>2 DEF Fit
<1>11. QED
    BY <1>9, <1>10

-----------------------------------------------------------------------------
(* What the entries of a file agree about *)

HostKeys == {"poll_interval", "drain_timeout", "ram_budget", "ram_headroom", "metrics_addr"}

(* An entry leaves the host keys of the file alone. *)
LEMMA MergeKeepsHostKeys ==
    ASSUME NEW global, NEW entry, DOMAIN entry \subseteq ProgramKeys, NEW key \in HostKeys
    PROVE  LET raw == MergeProgram(global, entry)
           IN  /\ key \in DOMAIN raw <=> key \in DOMAIN global
               /\ key \in DOMAIN global => raw[key] = global[key]
BY DEF MergeProgram, HostKeys, ProgramKeys

(* The host settings of an accepted program follow from the host keys it was read from,
   and not from its mode. *)
HostSettingsOf(raw) ==
    [poll_interval |-> DurationOf(raw, "poll_interval", 10),
     drain_timeout |-> DurationOf(raw, "drain_timeout", 30),
     ram           |-> IF BytesOf(raw, "ram_budget") # None
                       THEN [kind |-> "budget", bytes |-> BytesOf(raw, "ram_budget")]
                       ELSE [kind  |-> "headroom",
                             bytes |-> IF BytesOf(raw, "ram_headroom") = None
                                       THEN DefaultHeadroom
                                       ELSE BytesOf(raw, "ram_headroom")],
     metrics_addr  |-> Setting(raw, "metrics_addr", None)]

LEMMA HostSettingsByKeys ==
    ASSUME NEW raw, Validate(raw) # Bad, NEW config,
           \/ config = Validate(raw)
           \/ \E mode \in {"slo", "threshold"} : config = [Validate(raw) EXCEPT !.mode = mode]
    PROVE  HostSettings(config) = HostSettingsOf(raw)
<1>1. /\ config.poll_interval = DurationOf(raw, "poll_interval", 10)
      /\ config.drain_timeout = DurationOf(raw, "drain_timeout", 30)
      /\ config.ram_budget = BytesOf(raw, "ram_budget")
      /\ config.ram_headroom = Headroom(raw)
      /\ config.metrics_addr = Setting(raw, "metrics_addr", None)
    BY DEF Validate
<1>2. RamPolicy(config) = HostSettingsOf(raw).ram
    <2>1. CASE Headroom(raw) = BytesOf(raw, "ram_headroom")
        BY <1>1, <2>1 DEF RamPolicy, HostSettingsOf
    <2>2. CASE Headroom(raw) # BytesOf(raw, "ram_headroom")
        <3>1. /\ Headroom(raw) = DefaultHeadroom
              /\ "ram_budget" \notin DOMAIN raw /\ "ram_headroom" \notin DOMAIN raw
            BY <2>2 DEF Headroom
        <3>2. BytesOf(raw, "ram_budget") = None /\ BytesOf(raw, "ram_headroom") = None
            BY <3>1 DEF BytesOf
        <3>3. QED
            BY <1>1, <3>1, <3>2 DEF RamPolicy, HostSettingsOf
    <2>3. QED
        BY <2>1, <2>2
<1>3. QED
    BY <1>1, <1>2 DEF HostSettings, HostSettingsOf

LEMMA EntriesAgree ==
    ASSUME NEW global, NEW e, NEW f,
           DOMAIN e \subseteq ProgramKeys, DOMAIN f \subseteq ProgramKeys
    PROVE  HostSettingsOf(MergeProgram(global, e)) = HostSettingsOf(MergeProgram(global, f))
<1> DEFINE r == MergeProgram(global, e)
           s == MergeProgram(global, f)
<1>1. \A key \in HostKeys : /\ key \in DOMAIN r <=> key \in DOMAIN s
                            /\ key \in DOMAIN r => r[key] = s[key]
    BY MergeKeepsHostKeys
<1> HIDE DEF r, s
<1>2. /\ \A default : \A key \in HostKeys : DurationOf(r, key, default) = DurationOf(s, key, default)
      /\ \A key \in HostKeys : BytesOf(r, key) = BytesOf(s, key)
      /\ \A default : \A key \in HostKeys : Setting(r, key, default) = Setting(s, key, default)
    BY <1>1 DEF DurationOf, BytesOf, Setting
<1>3. HostSettingsOf(r) = HostSettingsOf(s)
    BY <1>2 DEF HostSettingsOf, HostKeys
<1>4. QED
    BY <1>3 DEF r, s

-----------------------------------------------------------------------------
(* The daemon's settings *)

(* One raw program per entry, all of one file. *)
LEMMA LoadedFromEntries ==
    ASSUME NEW file, IsFile(file), LoadAll(file) # Bad
    PROVE  \E n \in Nat \ {0} : \E host :
              /\ DOMAIN LoadAll(file) = 1..n
              /\ \A i \in 1..n : \E raw :
                    /\ Sound(raw) /\ Validate(raw) # Bad /\ LoadAll(file)[i] = Validate(raw)
                    /\ HostSettingsOf(raw) = host
<1> DEFINE global   == Parse(file).global
           programs == Parse(file).programs
           entries  == IF programs = <<>> THEN <<global>>
                       ELSE [i \in DOMAIN programs |-> MergeProgram(global, programs[i])]
<1>1. Parse(file) # Bad
    BY DEF LoadAll
<1>2. /\ Sound(global)
      /\ \E n \in Nat : DOMAIN programs = 1..n /\ (n = 0 => programs = <<>>)
      /\ \A i \in DOMAIN programs : Sound(programs[i]) /\ DOMAIN programs[i] \subseteq ProgramKeys
    BY <1>1, ReadIsSound
<1>3. /\ LoadAll(file) = [i \in DOMAIN entries |-> Validate(entries[i])]
      /\ \A i \in DOMAIN entries : Validate(entries[i]) # Bad
    BY <1>1 DEF LoadAll
<1>4. CASE programs = <<>>
    <2>1. DOMAIN entries = 1..1 /\ \A i \in 1..1 : entries[i] = global
        BY <1>4
    <2> HIDE DEF entries
    <2>2. /\ DOMAIN LoadAll(file) = 1..1
          /\ \A i \in 1..1 : LoadAll(file)[i] = Validate(global) /\ Validate(global) # Bad
        BY <1>3, <2>1
    <2>3. \A i \in 1..1 : \E raw :
             /\ Sound(raw) /\ Validate(raw) # Bad /\ LoadAll(file)[i] = Validate(raw)
             /\ HostSettingsOf(raw) = HostSettingsOf(global)
        BY <1>2, <2>2
    <2>4. QED
        BY <2>2, <2>3
<1>5. CASE programs # <<>>
    <2> DEFINE bare == [k \in {} |-> None]
    <2>1. entries = [i \in DOMAIN programs |-> MergeProgram(global, programs[i])]
        BY <1>5
    <2>2. \A i \in DOMAIN entries : Sound(entries[i])
        BY <1>2, <2>1, MergeIsSound
    <2>3. \A i \in DOMAIN entries :
             HostSettingsOf(entries[i]) = HostSettingsOf(MergeProgram(global, bare))
        BY <1>2, <2>1, EntriesAgree
    <2>4. PICK n \in Nat \ {0} : DOMAIN programs = 1..n
        BY <1>2, <1>5
    <2>5. DOMAIN entries = 1..n
        BY <2>1, <2>4
    <2> HIDE DEF entries, bare
    <2>6. DOMAIN LoadAll(file) = 1..n
        BY <1>3, <2>5
    <2>7. \A i \in 1..n : \E raw :
             /\ Sound(raw) /\ Validate(raw) # Bad /\ LoadAll(file)[i] = Validate(raw)
             /\ HostSettingsOf(raw) = HostSettingsOf(MergeProgram(global, bare))
        BY <1>3, <2>2, <2>3, <2>5
    <2>8. QED
        BY <2>6, <2>7
<1>6. QED
    BY <1>4, <1>5

LEMMA SettingsAreGood ==
    ASSUME NEW file, IsFile(file), NEW mode, Settings(file, mode) # Bad
    PROVE  /\ Settings(file, mode) \in Seq(Range(Settings(file, mode)))
           /\ Settings(file, mode) # <<>>
           /\ \A i \in DOMAIN Settings(file, mode) :
                 /\ IsRunnable(Params(Settings(file, mode)[i]))
                 /\ HostSettings(Settings(file, mode)[i]) = HostSettings(Settings(file, mode)[1])
<1> DEFINE loaded == LoadAll(file)
           used   == Settings(file, mode)
<1>1. loaded # Bad /\ mode \in {None, "slo", "threshold"} /\ used = OverrideMode(loaded, mode)
    BY DEF Settings
<1>2. PICK n \in Nat \ {0} : \E host :
         /\ DOMAIN loaded = 1..n
         /\ \A i \in 1..n : \E raw :
               /\ Sound(raw) /\ Validate(raw) # Bad /\ loaded[i] = Validate(raw)
               /\ HostSettingsOf(raw) = host
    BY <1>1, LoadedFromEntries
<1>3. PICK host :
         \A i \in 1..n : \E raw :
            /\ Sound(raw) /\ Validate(raw) # Bad /\ loaded[i] = Validate(raw)
            /\ HostSettingsOf(raw) = host
    BY <1>2
<1>4. DOMAIN used = 1..n /\ used = [i \in 1..n |-> used[i]]
    <2>1. CASE mode = None
        <3>1. used = loaded
            BY <1>1, <2>1 DEF OverrideMode
        <3> DEFINE raw     == Parse(file)
                   entries == IF raw.programs = <<>> THEN <<raw.global>>
                              ELSE [i \in DOMAIN raw.programs |->
                                       MergeProgram(raw.global, raw.programs[i])]
        <3>2. loaded = [i \in DOMAIN entries |-> Validate(entries[i])]
            BY <1>1 DEF LoadAll
        <3> HIDE DEF entries
        <3>3. loaded = [i \in DOMAIN loaded |-> loaded[i]]
            BY <3>2
        <3>4. QED
            BY <1>2, <3>1, <3>3
    <2>2. CASE mode # None
        <3>1. used = [i \in DOMAIN loaded |-> [loaded[i] EXCEPT !.mode = mode]]
            BY <1>1, <2>2 DEF OverrideMode
        <3>2. QED
            BY <1>2, <3>1
    <2>3. QED
        BY <2>1, <2>2
<1>5. ASSUME NEW i \in 1..n
      PROVE  IsRunnable(Params(used[i])) /\ HostSettings(used[i]) = host
    <2>1. PICK raw : /\ Sound(raw) /\ Validate(raw) # Bad /\ loaded[i] = Validate(raw)
                     /\ HostSettingsOf(raw) = host
        BY <1>3
    <2>2. \/ used[i] = Validate(raw)
          \/ mode \in {"slo", "threshold"} /\ used[i] = [Validate(raw) EXCEPT !.mode = mode]
        BY <1>1, <1>2, <2>1 DEF OverrideMode
    <2>3. Fit(used[i])
        BY <2>1, <2>2, AcceptedIsFit
    <2>4. HostSettings(used[i]) = host
        BY <2>1, <2>2, HostSettingsByKeys
    <2>5. QED
        BY <2>3, <2>4, FitIsRunnable
<1>6. QED
    <2> HIDE DEF used
    <2>1. \A i \in DOMAIN used : i \in 1..n /\ 1 \in 1..n
        BY <1>4
    <2>2. \A i \in DOMAIN used : IsRunnable(Params(used[i])) /\ HostSettings(used[i]) = HostSettings(used[1])
        BY <1>5, <2>1
    <2>3. used \in Seq(Range(used)) /\ used # <<>>
        <3>1. used \in [1..n -> Range(used)]
            BY <1>4 DEF Range
        <3>2. used \in Seq(Range(used))
            BY <3>1, SeqDef
        <3>3. DOMAIN used # {}
            BY <1>4
        <3>4. QED
            BY <3>2, <3>3
    <2>4. QED
        BY <2>2, <2>3 DEF used

-----------------------------------------------------------------------------
(* Names in order *)

LEMMA LabelPositions ==
    /\ IsFiniteSet(Range(Labels))
    /\ \A n \in Range(Labels) : Position(n) \in Nat /\ Position(n) \in DOMAIN Labels
                                /\ Labels[Position(n)] = n
<1>1. DOMAIN Labels = 1..Len(Labels) /\ Len(Labels) \in Nat /\ IsFiniteSet(1..Len(Labels))
    BY MonitorAssumption, LenProperties, FS_Interval
<1>2. Labels \in Surjection(1..Len(Labels), Range(Labels))
    BY <1>1, MonitorAssumption, LenProperties DEF Surjection, Range
<1>3. IsFiniteSet(Range(Labels))
    BY <1>1, <1>2, FS_Surjection
<1>4. ASSUME NEW n \in Range(Labels)
      PROVE  Position(n) \in DOMAIN Labels /\ Labels[Position(n)] = n
    BY DEF Position, Range
<1>5. QED
    BY <1>1, <1>3, <1>4

InOrder(names, tabs) ==
    /\ tabs \in [1..Cardinality(names) -> names]
    /\ \A i, j \in DOMAIN tabs : i < j => Position(tabs[i]) < Position(tabs[j])

(* Any labels can be put in order. *)
LEMMA OrderExists ==
    \A names \in SUBSET Range(Labels) : \E tabs : InOrder(names, tabs)
<1> DEFINE Good == {s \in SUBSET Range(Labels) : \E tabs : InOrder(s, tabs)}
<1>1. \A s \in SUBSET Range(Labels) : IsFiniteSet(s) /\ Cardinality(s) \in Nat
    BY LabelPositions, FS_Subset, FS_CardinalityType
<1>2. ASSUME NEW s \in SUBSET Range(Labels), \A x \in s : s \ {x} \in Good
      PROVE  \E tabs : InOrder(s, tabs)
    <2>1. CASE s = {}
        <3>1. Cardinality(s) = 0
            BY <2>1, FS_EmptySet
        <3>2. InOrder(s, [i \in 1..0 |-> i])
            BY <3>1 DEF InOrder
        <3>3. QED
            BY <3>2
    <2>2. CASE s # {}
        <3> DEFINE places == {Position(n) : n \in s}
        <3>1. /\ \A n \in s : Position(n) \in Nat /\ Position(n) \in DOMAIN Labels
                              /\ Labels[Position(n)] = n
              /\ DOMAIN Labels = 1..Len(Labels) /\ Len(Labels) \in Nat
            BY LabelPositions, MonitorAssumption, LenProperties
        <3>2. PICK top \in s : \A n \in s : Position(n) <= Position(top)
            <4>1. places \in SUBSET (1..Len(Labels)) /\ places # {}
                BY <2>2, <3>1
            <4>2. Max(places) \in places /\ \A x \in places : x <= Max(places)
                BY <3>1, <4>1, MaxFacts
            <4>3. QED
                BY <4>2
        <3>3. PICK below : InOrder(s \ {top}, below)
            BY <1>2
        <3> DEFINE c    == Cardinality(s)
                   tabs == [i \in 1..c |-> IF i = c THEN top ELSE below[i]]
        <3>4. c \in Nat /\ c > 0 /\ Cardinality(s \ {top}) = c - 1
            BY <1>1, <2>2, FS_RemoveElement, FS_EmptySet
        <3>5. /\ below \in [1..(c - 1) -> s \ {top}]
              /\ \A i, j \in 1..(c - 1) : i < j => Position(below[i]) < Position(below[j])
            BY <3>3, <3>4 DEF InOrder
        <3> HIDE DEF c
        <3>6. ASSUME NEW i \in 1..c PROVE i = c \/ i \in 1..(c - 1)
            BY <3>4
        <3>7. tabs \in [1..c -> s]
            BY <3>5, <3>6
        <3>8. ASSUME NEW i \in 1..(c - 1) PROVE Position(below[i]) < Position(top)
            <4>1. below[i] \in s /\ below[i] # top
                BY <3>5
            <4>2. Position(below[i]) # Position(top)
                BY <3>1, <4>1
            <4>3. QED
                BY <3>1, <3>2, <4>1, <4>2
        <3>9. ASSUME NEW i \in 1..c, NEW j \in 1..c, i < j
              PROVE  Position(tabs[i]) < Position(tabs[j])
            <4>1. i \in 1..(c - 1) /\ i # c
                BY <3>4, <3>9
            <4>2. CASE j = c
                BY <3>8, <4>1, <4>2
            <4>3. CASE j # c
                <5>1. j \in 1..(c - 1)
                    BY <3>6, <4>3
                <5>2. QED
                    BY <3>5, <3>9, <4>1, <4>3, <5>1
            <4>4. QED
                BY <4>2, <4>3
        <3>10. InOrder(s, tabs)
            BY <3>7, <3>9 DEF InOrder, c
        <3>11. QED
            BY <3>10
    <2>3. QED
        BY <2>1, <2>2
<1>3. Good = SUBSET Range(Labels)
    <2>1. Good \in SUBSET (SUBSET Range(Labels))
        OBVIOUS
    <2>2. \A s \in SUBSET Range(Labels) : (\A x \in s : s \ {x} \in Good) => s \in Good
        BY <1>2
    <2> HIDE DEF Good
    <2>3. QED
        BY <2>1, <2>2, LabelPositions, SubsetInduction
<1>4. QED
    BY <1>3

LEMMA SortedFacts ==
    ASSUME NEW names \in SUBSET Range(Labels)
    PROVE  /\ Sorted(names) \in Seq(names)
           /\ \A n \in names : \E k \in DOMAIN Sorted(names) : Sorted(names)[k] = n
           /\ \A i, j \in DOMAIN Sorted(names) : Sorted(names)[i] = Sorted(names)[j] => i = j
<1> DEFINE tabs == Sorted(names)
           c    == Cardinality(names)
<1>1. IsFiniteSet(names) /\ c \in Nat
    BY LabelPositions, FS_Subset, FS_CardinalityType
<1>2. InOrder(names, tabs)
    <2>1. \E t : InOrder(names, t)
        BY OrderExists
    <2>2. QED
        BY <2>1 DEF Sorted, InOrder
<1>3. tabs \in [1..c -> names] /\ DOMAIN tabs = 1..c
    BY <1>2 DEF InOrder
<1>4. tabs \in Seq(names)
    BY <1>1, <1>3, SeqDef
<1>5. ASSUME NEW i \in 1..c, NEW j \in 1..c, tabs[i] = tabs[j] PROVE i = j
    <2>1. Position(tabs[i]) \in Nat /\ Position(tabs[j]) \in Nat
        BY <1>3, LabelPositions
    <2>2. ~(i < j) /\ ~(j < i)
        BY <1>2, <1>3, <1>5, <2>1 DEF InOrder
    <2>3. QED
        BY <1>1, <2>2
<1>6. tabs \in Injection(1..c, names)
    BY <1>3, <1>5 DEF Injection, IsInjective
<1>7. IsFiniteSet(1..c) /\ Cardinality(1..c) = c
    BY <1>1, FS_Interval
<1>8. tabs \in Surjection(1..c, names)
    BY <1>1, <1>6, <1>7, FS_Injection
<1>9. QED
    BY <1>3, <1>4, <1>5, <1>8 DEF Surjection

-----------------------------------------------------------------------------
(* What the endpoint renders *)

(* The place of column i of row j in a table whose rows are of length a. *)
Cell(a, i, j) == (j - 1) * a + i

LEMMA PlaceSplits ==
    ASSUME NEW a \in Nat \ {0}, NEW m \in Nat, NEW k \in 1..(m * a)
    PROVE  /\ ((k - 1) % a) + 1 \in 1..a
           /\ ((k - 1) \div a) + 1 \in 1..m
           /\ k = Cell(a, ((k - 1) % a) + 1, ((k - 1) \div a) + 1)
<1> DEFINE q == (k - 1) \div a
           r == (k - 1) % a
<1>1. m * a \in Nat
    BY SMT
<1>2. k \in Nat /\ k - 1 \in Nat /\ k - 1 < m * a
    BY <1>1
<1>3. q \in Int /\ r \in 0..(a - 1) /\ k - 1 = a * q + r
    BY <1>2, SMT
<1>4. q * a = a * q /\ q * a \in Int
    BY <1>3, SMT
<1>5. q >= 0
    BY <1>2, SMT
<1>6. q < m
    <2> HIDE DEF q, r
    <2>1. q * a < m * a
        BY <1>1, <1>2, <1>3, <1>4
    <2>2. q >= m => q * a >= m * a
        BY <1>3, SMT
    <2>3. QED
        BY <1>1, <1>3, <1>4, <2>1, <2>2
<1>7. QED
    <2> HIDE DEF q, r
    <2>1. r + 1 \in 1..a /\ q + 1 \in 1..m
        BY <1>3, <1>5, <1>6
    <2>2. k = Cell(a, r + 1, q + 1)
        <3>1. (q + 1) - 1 = q
            BY <1>3
        <3>2. k = q * a + (r + 1)
            BY <1>2, <1>3, <1>4
        <3>3. QED
            BY <3>1, <3>2 DEF Cell
    <2>3. QED
        BY <2>1, <2>2 DEF q, r

IsCell(a, m, i, j, k) ==
    k \in 1..(m * a) /\ ((k - 1) % a) + 1 = i /\ ((k - 1) \div a) + 1 = j

LEMMA PlaceJoins ==
    ASSUME NEW a \in Nat \ {0}, NEW m \in Nat, NEW i \in 1..a, NEW j \in 1..m
    PROVE  IsCell(a, m, i, j, Cell(a, i, j))
<1> DEFINE p == (j - 1) * a
           k == p + i
<1>1. j - 1 \in Nat /\ i - 1 \in 0..(a - 1) /\ j - 1 <= m - 1
    OBVIOUS
<1>2. p \in Nat /\ m * a \in Nat
    BY <1>1, SMT
<1>3. p + a <= m * a
    <2>1. \A u, v, w \in Nat : u <= v => u * w <= v * w
        BY SMT
    <2>2. j * a <= m * a
        BY <2>1
    <2>3. j * a = p + a
        BY SMT
    <2>4. QED
        BY <2>2, <2>3
<1>4. k \in 1..(m * a)
    <2> HIDE DEF p
    <2>1. QED
        BY <1>2, <1>3
<1>5. k - 1 = a * (j - 1) + (i - 1)
    BY SMT
<1>6. \A x \in Nat, q \in Nat, r \in 0..(a - 1) : x = a * q + r => x % a = r /\ x \div a = q
    BY SMT
<1>7. k - 1 \in Nat
    BY <1>2
<1>8. (k - 1) % a = i - 1 /\ (k - 1) \div a = j - 1
    <2> HIDE DEF k
    <2>1. QED
        BY <1>1, <1>5, <1>6, <1>7
<1>9. QED
    <2> HIDE DEF k
    <2>1. ((k - 1) % a) + 1 = i /\ ((k - 1) \div a) + 1 = j
        BY <1>8
    <2>2. QED
        BY <1>4, <2>1 DEF k, Cell, IsCell

(* The line of series j of the program of snapshot i. *)
Line(b, i, j) == [name |-> b[i].name, series |-> Series[j], value |-> b[i].values[Series[j]]]

Place(b, i, j) == Cell(Len(b), i, j)

LEMMA LineType ==
    ASSUME NEW b \in Seq(Snapshot), NEW i \in DOMAIN b, NEW j \in DOMAIN Series
    PROVE  Line(b, i, j) \in Sample
<1>1. b[i] \in Snapshot /\ Series[j] \in Range(Series)
    BY ElementOfSeq, LenProperties DEF Range
<1>2. b[i].name \in Range(Labels) /\ b[i].values \in [Range(Series) -> Int]
    BY <1>1, MonitorAssumption DEF Snapshot
<1>3. b[i].values[Series[j]] \in Int
    BY <1>1, <1>2
<1>4. QED
    BY <1>1, <1>2, <1>3 DEF Line, Sample

(* A body has one line for each series and snapshot, and their order tells where. *)
LEMMA RenderFacts ==
    ASSUME NEW b \in Seq(Snapshot)
    PROVE  /\ Render(b) \in Seq(Sample)
           /\ \A k \in DOMAIN Render(b) :
                 \E i \in DOMAIN b, j \in DOMAIN Series :
                    k = Place(b, i, j) /\ Render(b)[k] = Line(b, i, j)
           /\ \A i \in DOMAIN b, j \in DOMAIN Series :
                 /\ Place(b, i, j) \in DOMAIN Render(b)
                 /\ Render(b)[Place(b, i, j)] = Line(b, i, j)
<1> DEFINE a == Len(b)
           m == Len(Series)
           i(k) == ((k - 1) % a) + 1
           j(k) == ((k - 1) \div a) + 1
<1>1. /\ a \in Nat /\ DOMAIN b = 1..a
      /\ m \in Nat /\ DOMAIN Series = 1..m
    BY MonitorAssumption, LenProperties
<1>2. m * a \in Nat
    BY <1>1, SMT
<1>3. Render(b) = [k \in 1..(m * a) |-> Line(b, i(k), j(k))]
    BY DEF Render, Line
<1>4. DOMAIN Render(b) = 1..(m * a)
    BY <1>3
<1>5. ASSUME NEW k \in 1..(m * a)
      PROVE  /\ i(k) \in DOMAIN b /\ j(k) \in DOMAIN Series
             /\ k = Place(b, i(k), j(k)) /\ Render(b)[k] = Line(b, i(k), j(k))
    <2>1. a # 0
        <3>1. \A u \in Nat : u * 0 = 0
            BY SMT
        <3>2. QED
            BY <1>1, <3>1
    <2>2. /\ i(k) \in 1..a /\ j(k) \in 1..m
          /\ k = Cell(a, i(k), j(k))
        BY <1>1, <2>1, PlaceSplits
    <2>3. QED
        BY <1>1, <1>3, <2>2 DEF Place
<1>6. ASSUME NEW x \in DOMAIN b, NEW y \in DOMAIN Series
      PROVE  /\ Place(b, x, y) \in 1..(m * a)
             /\ Render(b)[Place(b, x, y)] = Line(b, x, y)
    <2>1. a \in Nat \ {0}
        BY <1>1
    <2>2. /\ Place(b, x, y) \in 1..(m * a)
          /\ i(Place(b, x, y)) = x /\ j(Place(b, x, y)) = y
        <3>1. IsCell(a, m, x, y, Cell(a, x, y))
            BY <1>1, <2>1, PlaceJoins
        <3>2. QED
            BY <3>1 DEF IsCell, Place
    <2>3. \A k \in 1..(m * a) : Render(b)[k] = Line(b, i(k), j(k))
        BY <1>3
    <2> HIDE DEF i, j
    <2>4. QED
        BY <2>2, <2>3
<1>7. Render(b) \in Seq(Sample)
    <2>1. Render(b) \in [1..(m * a) -> Sample]
        <3>1. ASSUME NEW k \in 1..(m * a) PROVE Render(b)[k] \in Sample
            <4>1. /\ i(k) \in DOMAIN b /\ j(k) \in DOMAIN Series
                  /\ Render(b)[k] = Line(b, i(k), j(k))
                BY <1>5
            <4> HIDE DEF i, j
            <4>2. QED
                BY <4>1, LineType
        <3>2. QED
            BY <1>3, <3>1
    <2>2. QED
        BY <1>2, <2>1, SeqDef
<1>8. \A k \in DOMAIN Render(b) :
         \E x \in DOMAIN b, y \in DOMAIN Series :
            k = Place(b, x, y) /\ Render(b)[k] = Line(b, x, y)
    <2> HIDE DEF i, j
    <2>1. QED
        BY <1>4, <1>5
<1>9. QED
    BY <1>4, <1>6, <1>7, <1>8

LEMMA NamesRendered ==
    ASSUME NEW b \in Seq(Snapshot), Series # <<>>
    PROVE  NamesIn(Render(b)) = NamesIn(b)
<1>1. 1 \in DOMAIN Series
    BY MonitorAssumption, EmptySeq, LenProperties
<1>2. ASSUME NEW k \in DOMAIN Render(b) PROVE Render(b)[k].name \in NamesIn(b)
    BY RenderFacts DEF Line, NamesIn
<1>3. ASSUME NEW i \in DOMAIN b PROVE b[i].name \in NamesIn(Render(b))
    <2>1. /\ Place(b, i, 1) \in DOMAIN Render(b)
          /\ Render(b)[Place(b, i, 1)] = Line(b, i, 1)
        BY <1>1, RenderFacts
    <2>2. QED
        BY <2>1 DEF NamesIn, Line
<1>4. QED
    BY <1>2, <1>3 DEF NamesIn

(* Of two snapshots of one name the later one's values are read. *)
LEMMA LaterIsRead ==
    ASSUME NEW b \in Seq(Snapshot), NEW i \in DOMAIN b,
           \A h \in DOMAIN b : h > i => b[h].name # b[i].name
    PROVE  ValuesIn(Render(b), b[i].name) = b[i].values
<1> DEFINE body  == Render(b)
           of(s) == {k \in DOMAIN body : body[k].name = b[i].name /\ body[k].series = s}
<1>1. /\ Len(b) \in Nat /\ DOMAIN b = 1..Len(b)
      /\ DOMAIN Series = 1..Len(Series) /\ Len(Series) \in Nat
      /\ DOMAIN body = 1..Len(body) /\ Len(body) \in Nat
    BY RenderFacts, MonitorAssumption, LenProperties
<1>2. b[i].values \in [Range(Series) -> Int]
    <2>1. b[i] \in Snapshot
        BY <1>1, ElementOfSeq
    <2>2. QED
        BY <2>1, MonitorAssumption DEF Snapshot
<1>3. ASSUME NEW s \in Range(Series)
      PROVE  of(s) # {} /\ body[Max(of(s))].value = b[i].values[s]
    <2>1. PICK j \in DOMAIN Series : Series[j] = s
        BY DEF Range
    <2>2. Place(b, i, j) \in of(s)
        <3>1. Place(b, i, j) \in DOMAIN body /\ body[Place(b, i, j)] = Line(b, i, j)
            BY RenderFacts
        <3>2. Line(b, i, j).name = b[i].name /\ Line(b, i, j).series = s
            BY <2>1 DEF Line
        <3>3. QED
            BY <3>1, <3>2
    <2> DEFINE last == Max(of(s))
    <2>3. last \in of(s) /\ \A k \in of(s) : k <= last
        <3>1. of(s) \in SUBSET (1..Len(body)) /\ of(s) # {}
            BY <1>1, <2>2
        <3>2. QED
            BY <1>1, <3>1, MaxFacts
    <2>4. PICK h \in DOMAIN b, l \in DOMAIN Series : last = Place(b, h, l) /\ body[last] = Line(b, h, l)
        BY <2>3, RenderFacts
    <2>5. b[h].name = b[i].name /\ Series[l] = s
        BY <2>3, <2>4 DEF Line
    <2>6. ~(h < i)
        <3>1. Place(b, i, l) \in of(s)
            <4>1. Place(b, i, l) \in DOMAIN body /\ body[Place(b, i, l)] = Line(b, i, l)
                BY RenderFacts
            <4>2. Line(b, i, l).name = b[i].name /\ Line(b, i, l).series = s
                BY <2>5 DEF Line
            <4>3. QED
                BY <4>1, <4>2
        <3>2. Place(b, i, l) <= Place(b, h, l)
            BY <2>3, <2>4, <3>1
        <3>3. (l - 1) * Len(b) \in Int
            BY <1>1, SMT
        <3>4. QED
            BY <1>1, <3>2, <3>3 DEF Place, Cell
    <2>7. h = i
        BY <1>1, <2>5, <2>6
    <2>8. body[last].value = b[i].values[s]
        BY <2>4, <2>5, <2>7 DEF Line
    <2>9. QED
        BY <2>2, <2>8
<1>4. ValuesIn(body, b[i].name) = [s \in Range(Series) |-> IF of(s) = {} THEN 0 ELSE body[Max(of(s))].value]
    BY DEF ValuesIn
<1>5. ValuesIn(body, b[i].name) = [s \in Range(Series) |-> b[i].values[s]]
    <2> HIDE DEF of, body
    <2>1. QED
        BY <1>3, <1>4
<1>6. QED
    BY <1>2, <1>5

-----------------------------------------------------------------------------
(* What the viewer merges *)

Tab == [name : Range(Labels), values : [Range(Series) -> Int]]

OneTabEach(programs) == IsInjective([k \in DOMAIN programs |-> programs[k].name])

LEMMA ValuesType ==
    ASSUME NEW body \in Seq(Sample), NEW n \in Range(Labels)
    PROVE  [name |-> n, values |-> ValuesIn(body, n)] \in Tab
<1> DEFINE of(s) == {k \in DOMAIN body : body[k].name = n /\ body[k].series = s}
<1>1. Len(body) \in Nat /\ DOMAIN body = 1..Len(body)
    BY LenProperties
<1>2. ASSUME NEW s \in Range(Series), of(s) # {}
      PROVE  body[Max(of(s))].value \in Int
    <2>1. of(s) \in SUBSET (1..Len(body))
        BY <1>1
    <2>2. Max(of(s)) \in of(s)
        BY <1>1, <1>2, <2>1, MaxFacts
    <2>3. Max(of(s)) \in 1..Len(body)
        BY <2>1, <2>2
    <2>4. body[Max(of(s))] \in Sample
        BY <2>3, ElementOfSeq
    <2>5. QED
        BY <2>4 DEF Sample
<1>3. ValuesIn(body, n) = [s \in Range(Series) |-> IF of(s) = {} THEN 0 ELSE body[Max(of(s))].value]
    BY DEF ValuesIn
<1>4. ValuesIn(body, n) \in [Range(Series) -> Int]
    <2> HIDE DEF of
    <2>1. QED
        BY <1>2, <1>3
<1>5. QED
    BY <1>4 DEF Tab

LEMMA NamesType ==
    /\ \A body \in Seq(Sample) : NamesIn(body) \in SUBSET Range(Labels)
    /\ \A programs \in Seq(Tab) : NamesIn(programs) \in SUBSET Range(Labels)
<1>1. ASSUME NEW body \in Seq(Sample), NEW k \in DOMAIN body PROVE body[k].name \in Range(Labels)
    <2>1. body[k] \in Sample
        BY ElementOfSeq, LenProperties
    <2>2. QED
        BY <2>1 DEF Sample
<1>2. ASSUME NEW programs \in Seq(Tab), NEW k \in DOMAIN programs
      PROVE  programs[k].name \in Range(Labels)
    <2>1. programs[k] \in Tab
        BY ElementOfSeq, LenProperties
    <2>2. QED
        BY <2>1 DEF Tab
<1>3. QED
    BY <1>1, <1>2 DEF NamesIn

(* A merge keeps every tab in its place, and adds a tab for every new name. *)
LEMMA MergeFacts ==
    ASSUME NEW programs \in Seq(Tab), OneTabEach(programs), NEW body \in Seq(Sample)
    PROVE  /\ Merge(programs, body) \in Seq(Tab)
           /\ OneTabEach(Merge(programs, body))
           /\ Len(Merge(programs, body)) >= Len(programs)
           /\ \A k \in DOMAIN programs : /\ k \in DOMAIN Merge(programs, body)
                                        /\ Merge(programs, body)[k].name = programs[k].name
           /\ \A k \in DOMAIN programs :
                 programs[k].name \notin NamesIn(body) => Merge(programs, body)[k] = programs[k]
           /\ \A n \in NamesIn(body) :
                 \E k \in DOMAIN Merge(programs, body) :
                    Merge(programs, body)[k] = [name |-> n, values |-> ValuesIn(body, n)]
           /\ body = <<>> => Merge(programs, body) = programs
<1> DEFINE fresh  == NamesIn(body) \ NamesIn(programs)
           old    == [k \in DOMAIN programs |-> programs[k].name]
           new    == Sorted(fresh)
           tabs   == old \o new
           read(n) == [name |-> n, values |-> ValuesIn(body, n)]
           merged == Merge(programs, body)
           p      == Len(programs)
           c      == Len(new)
<1>1. p \in Nat /\ DOMAIN programs = 1..p /\ \A k \in 1..p : programs[k] \in Tab
    BY LenProperties, ElementOfSeq
<1>2. /\ fresh \in SUBSET Range(Labels)
      /\ \A n \in NamesIn(body) : n \in Range(Labels) /\ read(n) \in Tab
    BY NamesType, ValuesType
<1>3. /\ old \in Seq(Range(Labels)) /\ Len(old) = p
      /\ \A k \in 1..p : old[k] = programs[k].name /\ old[k] \in NamesIn(programs)
    <2>1. \A k \in 1..p : programs[k].name \in Range(Labels)
        BY <1>1 DEF Tab
    <2>2. old \in [1..p -> Range(Labels)]
        BY <1>1, <2>1
    <2>3. old \in Seq(Range(Labels)) /\ DOMAIN old = 1..p
        BY <1>1, <2>2, SeqDef
    <2>4. Len(old) = p
        BY <1>1, <2>3, LenProperties
    <2>5. QED
        BY <1>1, <2>3, <2>4 DEF NamesIn
<1>4. /\ new \in Seq(fresh) /\ c \in Nat /\ DOMAIN new = 1..c
      /\ \A n \in fresh : \E k \in 1..c : new[k] = n
      /\ \A i, j \in 1..c : new[i] = new[j] => i = j
      /\ \A k \in 1..c : new[k] \in fresh
    <2>1. new \in Seq(fresh)
        BY <1>2, SortedFacts
    <2>2. c \in Nat /\ DOMAIN new = 1..c /\ \A k \in 1..c : new[k] \in fresh
        BY <2>1, LenProperties, ElementOfSeq
    <2>3. QED
        BY <1>2, <2>1, <2>2, SortedFacts
<1>5. /\ tabs \in Seq(Range(Labels)) /\ DOMAIN tabs = 1..(p + c)
      /\ \A k \in 1..(p + c) : tabs[k] = IF k <= p THEN old[k] ELSE new[k - p]
    <2>1. new \in Seq(Range(Labels))
        BY <1>2, <1>4, SeqMonotonic
    <2>2. /\ tabs \in Seq(Range(Labels)) /\ Len(tabs) = p + c
          /\ \A k \in 1..(p + c) : tabs[k] = IF k <= p THEN old[k] ELSE new[k - p]
        <3>1. old \in Seq(Range(Labels)) /\ Len(old) = p /\ new \in Seq(Range(Labels)) /\ Len(new) = c
            BY <1>3, <2>1
        <3> HIDE DEF old, new, p, c
        <3>2. QED
            BY <3>1, ConcatProperties
    <2> HIDE DEF tabs
    <2>3. QED
        BY <2>2, LenProperties
<1>6. merged = [k \in 1..(p + c) |-> IF tabs[k] \in NamesIn(body) THEN read(tabs[k]) ELSE programs[k]]
    <2>1. merged = [k \in DOMAIN tabs |-> IF tabs[k] \in NamesIn(body) THEN read(tabs[k]) ELSE programs[k]]
        BY DEF Merge
    <2>2. QED
        BY <1>5, <2>1
<1> HIDE DEF fresh, old, new, tabs, read, merged, p, c
<1>7. ASSUME NEW k \in 1..(p + c)
      PROVE  \/ k \in 1..p /\ tabs[k] = programs[k].name
             \/ k \notin 1..p /\ k - p \in 1..c /\ tabs[k] = new[k - p] /\ tabs[k] \in fresh
    <2>1. CASE k <= p
        BY <1>1, <1>3, <1>4, <1>5, <2>1
    <2>2. CASE ~(k <= p)
        <3>1. k \notin 1..p /\ k - p \in 1..c
            BY <1>1, <1>4, <2>2
        <3>2. QED
            BY <1>4, <1>5, <2>2, <3>1
    <2>3. QED
        BY <2>1, <2>2
<1>8. fresh \subseteq NamesIn(body) /\ fresh \intersect NamesIn(programs) = {}
    BY DEF fresh
<1>9. ASSUME NEW k \in 1..(p + c)
      PROVE  merged[k] \in Tab /\ merged[k].name = tabs[k]
    <2>1. CASE tabs[k] \in NamesIn(body)
        <3>1. merged[k] = read(tabs[k])
            BY <1>6, <2>1
        <3>2. QED
            BY <1>2, <2>1, <3>1 DEF read
    <2>2. CASE tabs[k] \notin NamesIn(body)
        <3>1. merged[k] = programs[k]
            BY <1>6, <2>2
        <3>2. k \in 1..p /\ tabs[k] = programs[k].name
            BY <1>7, <1>8, <2>2
        <3>3. QED
            BY <1>1, <3>1, <3>2
    <2>3. QED
        BY <2>1, <2>2
<1>10. p + c \in Nat /\ DOMAIN merged = 1..(p + c)
    BY <1>1, <1>4, <1>6
<1>11. merged \in Seq(Tab) /\ Len(merged) = p + c
    <2>1. merged \in [1..(p + c) -> Tab]
        BY <1>6, <1>9
    <2>2. merged \in Seq(Tab)
        BY <1>10, <2>1, SeqDef
    <2>3. Len(merged) \in Nat /\ 1..Len(merged) = 1..(p + c)
        BY <1>10, <2>2, LenProperties
    <2>4. QED
        BY <1>10, <2>2, <2>3
<1>12. OneTabEach(merged)
    <2>1. \A i, j \in 1..p : programs[i].name = programs[j].name => i = j
        BY <1>1 DEF OneTabEach, IsInjective
    <2>2. ASSUME NEW i \in 1..(p + c), NEW j \in 1..(p + c), tabs[i] = tabs[j]
          PROVE  i = j
        <3>1. CASE i \in 1..p /\ j \in 1..p
            BY <1>7, <2>1, <2>2, <3>1
        <3>2. CASE i \notin 1..p /\ j \notin 1..p
            <4>1. new[i - p] = new[j - p] /\ i - p \in 1..c /\ j - p \in 1..c
                BY <1>7, <2>2, <3>2
            <4>2. i - p = j - p
                BY <1>4, <4>1
            <4>3. QED
                BY <1>1, <1>10, <4>2
        <3>3. ASSUME NEW x \in 1..p, NEW y \in 1..(p + c), y \notin 1..p
              PROVE  tabs[x] # tabs[y]
            <4>1. x \in 1..(p + c)
                BY <1>1, <1>4
            <4>2. tabs[x] \in NamesIn(programs)
                BY <1>1, <1>7, <4>1 DEF NamesIn
            <4>3. tabs[y] \in fresh
                BY <1>7, <3>3
            <4>4. QED
                BY <1>8, <4>2, <4>3
        <3>4. QED
            BY <2>2, <3>1, <3>2, <3>3
    <2>3. \A i, j \in 1..(p + c) : merged[i].name = merged[j].name => i = j
        BY <1>9, <2>2
    <2>4. QED
        BY <1>10, <2>3 DEF OneTabEach, IsInjective
<1>13. ASSUME NEW k \in 1..p, programs[k].name \notin NamesIn(body)
       PROVE  merged[k] = programs[k]
    <2>1. k \in 1..(p + c)
        BY <1>1, <1>4
    <2>2. tabs[k] = programs[k].name
        BY <1>7, <2>1
    <2>3. QED
        BY <1>6, <1>13, <2>1, <2>2
<1>14. ASSUME NEW n \in NamesIn(body)
       PROVE  \E k \in 1..(p + c) : merged[k] = read(n)
    <2>1. \E k \in 1..(p + c) : tabs[k] = n
        <3>1. CASE n \in fresh
            <4>1. PICK k \in 1..c : new[k] = n
                BY <1>4, <3>1
            <4>2. k + p \in 1..(p + c) /\ ~(k + p <= p) /\ (k + p) - p = k
                BY <1>1, <1>4
            <4>3. tabs[k + p] = n
                BY <1>5, <4>1, <4>2
            <4>4. QED
                BY <4>2, <4>3
        <3>2. CASE n \in NamesIn(programs)
            <4>1. PICK k \in 1..p : programs[k].name = n
                BY <1>1, <3>2 DEF NamesIn
            <4>2. k \in 1..(p + c)
                BY <1>1, <1>4
            <4>3. QED
                BY <1>7, <4>1, <4>2
        <3>3. QED
            BY <3>1, <3>2 DEF fresh
    <2>2. QED
        BY <1>6, <2>1
<1>15. ASSUME body = <<>> PROVE merged = programs
    <2>1. NamesIn(body) = {}
        BY <1>15 DEF NamesIn
    <2>2. c = 0
        <3>1. fresh = {}
            BY <2>1 DEF fresh
        <3>2. QED
            BY <1>4, <3>1
    <2>3. merged = [k \in 1..p |-> programs[k]]
        BY <1>1, <1>6, <2>1, <2>2
    <2>4. programs = [k \in 1..p |-> programs[k]]
        <3>1. programs \in [1..p -> Tab]
            BY LenProperties DEF p
        <3>2. QED
            BY <3>1
    <2>5. QED
        BY <2>3, <2>4
<1>16. p + c >= p
    BY <1>1, <1>4
<1>17. ASSUME NEW k \in 1..p
       PROVE  k \in 1..(p + c) /\ merged[k].name = programs[k].name
    <2>1. k \in 1..(p + c)
        BY <1>1, <1>4
    <2>2. QED
        BY <1>7, <1>9, <2>1
<1>18. QED
    BY <1>1, <1>10, <1>11, <1>12, <1>13, <1>14, <1>15, <1>16, <1>17 DEF merged, read, p

-----------------------------------------------------------------------------
(* The invariant *)

(* The daemon's programs are a sequence of settings with a label each, and both its
   collections are snapshots. *)
DaemonOK ==
    /\ daemon \in {"down", "up", "stopping"} /\ bound \in BOOLEAN
    /\ daemon = "down" <=> configs = <<>>
    /\ configs \in Seq(Range(configs))
    /\ \A i \in DOMAIN configs : Label(configs[i]) \in Range(Labels)
    /\ snapshots \in Seq(Snapshot) /\ board \in Seq(Snapshot)
    /\ configs # <<>> => Len(snapshots) < Len(configs)
    /\ daemon # "up" => snapshots = <<>>
    /\ Len(board) \in {0, Len(configs)}

CountsOK == starts \in 0..MaxStarts /\ faults \in 0..MaxFaults

ViewOK ==
    /\ viewing \in BOOLEAN /\ paused \in BOOLEAN
    /\ path \in Paths \union {"/metrics"}
    /\ shown \in Seq(Tab) /\ OneTabEach(shown)
    /\ selected \in Nat \ {0} /\ (selected = 1 \/ selected <= Len(shown))
    /\ error \in {None, "transport", "status", "no series"}

(* An answer that did not break off is the body of a board that was offered. *)
Genuine(r, boards) ==
    /\ Len(r.body) <= r.size
    /\ Len(r.body) = r.size => r.body = <<>> \/ \E b \in boards : r.body = Render(b)

(* While a request waits the current board is on offer. *)
ScrapeOK ==
    /\ request # None => request \in Request /\ viewing
    /\ request = None <=> offered = {}
    /\ offered \in SUBSET Seq(Snapshot)
    /\ Pending => board \in offered
    /\ request # None /\ request.phase = "answered" => Genuine(request, offered)

IInv == DaemonOK /\ CountsOK /\ ViewOK /\ ScrapeOK

LEMMA MaxOfTwo ==
    ASSUME NEW n \in Nat
    PROVE  Max({1, n}) = IF n > 1 THEN n ELSE 1
<1>1. Max({1, n}) \in {1, n} /\ \A x \in {1, n} : Max({1, n}) >= x
    <2>1. \E x \in {1, n} : \A y \in {1, n} : x >= y
        BY SMT
    <2>2. QED
        BY <2>1 DEF Max
<1>2. QED
    BY <1>1

LEMMA TypeFollows == IInv => TypeOK
<1> SUFFICES ASSUME IInv PROVE TypeOK
    OBVIOUS
<1>1. selected \in 1..Max({1, Len(shown)})
    <2>1. Len(shown) \in Nat /\ selected \in Nat \ {0} /\ (selected = 1 \/ selected <= Len(shown))
        BY LenProperties DEF IInv, ViewOK
    <2>2. QED
        BY <2>1, MaxOfTwo
<1>2. request # None => request \in Request /\ viewing
    BY DEF IInv, ScrapeOK
<1>3. QED
    BY <1>1, <1>2 DEF IInv, DaemonOK, CountsOK, ViewOK, ScrapeOK, TypeOK, OneTabEach

LEMMA Nothing ==
    /\ DOMAIN <<>> = {} /\ Len(<<>>) = 0
    /\ \A S : <<>> \in Seq(S)
    /\ OneTabEach(<<>>)
<1>1. DOMAIN <<>> = {} /\ Len(<<>>) = 0 /\ \A S : <<>> \in Seq(S)
    BY EmptySeq
<1>2. OneTabEach(<<>>)
    <2> DEFINE none == [k \in DOMAIN <<>> |-> <<>>[k].name]
    <2>1. DOMAIN none = {}
        BY <1>1
    <2> HIDE DEF none
    <2>2. IsInjective(none)
        BY <2>1 DEF IsInjective
    <2>3. QED
        BY <2>2 DEF OneTabEach, none
<1>3. QED
    BY <1>1, <1>2

(* A daemon that is down. *)
LEMMA DownOK ==
    ASSUME daemon = "down", configs = <<>>, bound = FALSE, snapshots = <<>>, board = <<>>
    PROVE  DaemonOK
<1>1. \A i \in DOMAIN configs : Label(configs[i]) \in Range(Labels)
    BY Nothing
<1>2. Len(board) = 0 /\ Len(configs) = 0
    BY Nothing
<1>3. configs \in Seq(Range(configs)) /\ snapshots \in Seq(Snapshot) /\ board \in Seq(Snapshot)
    BY Nothing
<1>4. QED
    BY <1>1, <1>2, <1>3 DEF DaemonOK

LEMMA InitOK == Init => IInv
<1> SUFFICES ASSUME Init PROVE IInv
    OBVIOUS
<1>1. DaemonOK
    BY DownOK DEF Init
<1>2. CountsOK
    BY MonitorAssumption DEF Init, CountsOK
<1>3. ViewOK
    <2>1. shown = <<>> /\ selected = 1 /\ error = None
        BY DEF Init
    <2>2. shown \in Seq(Tab)
        BY <2>1, Nothing
    <2>3. OneTabEach(shown)
        BY <2>1, Nothing
    <2>4. viewing \in BOOLEAN /\ paused \in BOOLEAN /\ path \in Paths \union {"/metrics"}
        BY DEF Init
    <2>5. QED
        BY <2>1, <2>2, <2>3, <2>4 DEF ViewOK
<1>4. ScrapeOK
    BY DEF Init, ScrapeOK, Pending
<1>5. QED
    BY <1>1, <1>2, <1>3, <1>4 DEF IInv

(* What a step leaves alone keeps its shape. *)
LEMMA DaemonStays == DaemonOK /\ UNCHANGED <<life, loop>> => DaemonOK'
BY DEF DaemonOK, life, loop

LEMMA ViewStays == ViewOK /\ UNCHANGED app => ViewOK'
BY DEF ViewOK, app

LEMMA ScrapeStays == ScrapeOK /\ UNCHANGED <<scrape, viewing, board>> => ScrapeOK'
BY DEF ScrapeOK, scrape, Pending

LEMMA ScrapeIsOver == ScrapeOK /\ Settled => ScrapeOK'
BY DEF ScrapeOK, Settled, Pending

LEMMA CountsKept == CountsOK /\ [Next]_vars => CountsOK'
<1> SUFFICES ASSUME CountsOK, [Next]_vars PROVE CountsOK'
    OBVIOUS
<1> USE DEF CountsOK
<1>1. MaxStarts \in Nat /\ MaxFaults \in Nat
    BY MonitorAssumption
<1>2. Fault => faults' \in 0..MaxFaults
    BY <1>1 DEF Fault
<1>3. ASSUME NEW command \in Commands, Start(command) PROVE CountsOK'
    <2>1. starts' \in 0..MaxStarts
        BY <1>1, <1>3 DEF Start
    <2>2. faults' = faults \/ Fault
        BY <1>3 DEF Start
    <2>3. QED
        BY <1>2, <2>1, <2>2
<1>4. CASE Loop
    BY <1>4 DEF Loop, Turn
<1>5. CASE Exit
    BY <1>5 DEF Exit, Gone
<1>6. CASE Crash
    BY <1>2, <1>6 DEF Crash, Gone
<1>7. CASE Serve
    BY <1>7 DEF Serve
<1>8. CASE Viewer
    BY <1>8 DEF Viewer, Poll, Answer, Lost, Fails
<1>9. CASE TimesOut
    BY <1>2, <1>9 DEF TimesOut, Fails
<1>10. CASE Operator
    BY <1>3, <1>10 DEF Operator, Signal, Open, TogglePause, Select, Quit
<1>11. CASE UNCHANGED vars
    BY <1>11 DEF vars
<1>12. QED
    BY <1>4, <1>5, <1>6, <1>7, <1>8, <1>9, <1>10, <1>11 DEF Next

-----------------------------------------------------------------------------
(* The daemon's steps *)

LEMMA StartKeeps ==
    ASSUME DaemonOK, ViewOK, ScrapeOK, NEW command \in Commands, Start(command)
    PROVE  DaemonOK' /\ ViewOK' /\ ScrapeOK'
<1>1. /\ IsFile(command.file)
      /\ configs' = Settings(command.file, command.mode) /\ configs' # Bad
    BY MonitorAssumption DEF Start
<1>2. configs' \in Seq(Range(configs')) /\ configs' # <<>>
    BY <1>1, SettingsAreGood
<1>3. \A i \in DOMAIN configs' : Label(configs'[i]) \in Range(Labels)
    BY <1>1, MonitorAssumption
<1>4. Len(configs') \in Nat \ {0}
    BY <1>2, EmptySeq
<1>5. /\ daemon = "down" /\ daemon' = "up" /\ bound' \in BOOLEAN
      /\ UNCHANGED <<loop, app, scrape>>
    <2>1. (configs'[1].metrics_addr # None) \in BOOLEAN
        OBVIOUS
    <2>2. bound' \in BOOLEAN
        BY <2>1, Zenon DEF Start
    <2>3. QED
        BY <2>2 DEF Start
<1>6. snapshots' = <<>> /\ Len(board') = 0
    BY <1>5, EmptySeq DEF DaemonOK, loop
<1>7. DaemonOK'
    <2>1. Len(<<>>) = 0 /\ <<>> \in Seq(Snapshot) /\ board' \in Seq(Snapshot)
        BY <1>5, EmptySeq DEF DaemonOK, loop
    <2>2. Len(snapshots') < Len(configs')
        BY <1>4, <1>6, <2>1
    <2>3. QED
        BY <1>2, <1>3, <1>5, <1>6, <2>1, <2>2 DEF DaemonOK
<1>8. ViewOK'
    BY <1>5, ViewStays
<1>9. ScrapeOK'
    BY <1>5, ScrapeStays DEF app, loop
<1>10. QED
    BY <1>7, <1>8, <1>9

LEMMA TurnKeeps ==
    ASSUME DaemonOK, ViewOK, ScrapeOK, NEW reading \in Readings, Turn(reading)
    PROVE  DaemonOK' /\ ViewOK' /\ ScrapeOK'
<1> DEFINE next  == Len(snapshots) + 1
           taken == Append(snapshots, [name |-> Label(configs[next]), values |-> reading])
<1>1. /\ daemon = "up" /\ UNCHANGED <<life, app, request>>
      /\ IF next < Len(configs)
         THEN snapshots' = taken /\ UNCHANGED <<board, offered>>
         ELSE /\ snapshots' = <<>>
              /\ board' = taken
              /\ offered' = IF Pending THEN offered \union {taken} ELSE offered
    BY DEF Turn
<1>2. Len(snapshots) \in Nat /\ Len(configs) \in Nat \ {0} /\ DOMAIN configs = 1..Len(configs)
    <2>1. configs # <<>>
        BY <1>1 DEF DaemonOK
    <2>2. QED
        BY <2>1, EmptySeq, LenProperties DEF DaemonOK
<1>3. next <= Len(configs) /\ next \in DOMAIN configs
    BY <1>1, <1>2 DEF DaemonOK
<1>4. taken \in Seq(Snapshot) /\ Len(taken) = next
    <2>1. [name |-> Label(configs[next]), values |-> reading] \in Snapshot
        BY <1>3 DEF DaemonOK, Snapshot
    <2>2. snapshots \in Seq(Snapshot)
        BY DEF DaemonOK
    <2>3. QED
        BY <2>1, <2>2, AppendProperties
<1>a. next \in Nat /\ Len(configs) \in Nat
    BY <1>2
<1> HIDE DEF taken, next
<1>5. DaemonOK'
    <2>1. CASE next < Len(configs)
        BY <1>1, <1>4, <2>1 DEF DaemonOK, life
    <2>2. CASE ~(next < Len(configs))
        <3>1. next = Len(configs)
            BY <1>a, <1>3, <2>2
        <3>2. snapshots' = <<>> /\ <<>> \in Seq(Snapshot) /\ Len(<<>>) = 0
            BY <1>1, <2>2, EmptySeq
        <3>3. Len(snapshots') < Len(configs')
            BY <1>1, <1>2, <3>2 DEF life
        <3>4. board' \in Seq(Snapshot) /\ Len(board') = Len(configs')
            BY <1>1, <1>4, <2>2, <3>1 DEF life
        <3>5. QED
            BY <1>1, <3>2, <3>3, <3>4 DEF DaemonOK, life
    <2>3. QED
        BY <2>1, <2>2
<1>6. ViewOK'
    BY <1>1, ViewStays
<1>7. ScrapeOK'
    <2>1. CASE offered' = offered /\ (board' = board \/ ~Pending)
        BY <1>1, <2>1 DEF ScrapeOK, Pending, app
    <2>2. CASE Pending /\ offered' = offered \union {taken} /\ board' = taken
        BY <1>1, <1>4, <2>2 DEF ScrapeOK, Pending, app, Genuine
    <2>3. QED
        BY <1>1, <2>1, <2>2
<1>8. QED
    BY <1>5, <1>6, <1>7

LEMMA SignalKeeps ==
    ASSUME DaemonOK, ViewOK, ScrapeOK, Signal
    PROVE  DaemonOK' /\ ViewOK' /\ ScrapeOK'
<1>1. DaemonOK'
    <2>1. <<>> \in Seq(Snapshot) /\ Len(<<>>) = 0
        BY EmptySeq
    <2>2. Len(configs) \in Nat /\ Len(snapshots) \in Nat /\ Len(<<>>) < Len(configs)
        BY <2>1, LenProperties DEF DaemonOK, Signal
    <2>3. QED
        BY <2>1, <2>2 DEF DaemonOK, Signal
<1>2. ViewOK' /\ ScrapeOK'
    BY ViewStays, ScrapeStays DEF Signal, app
<1>3. QED
    BY <1>1, <1>2

(* What is left of an answer when its connection ends. *)
LEMMA CutKeeps ==
    ASSUME NEW r \in Request, NEW boards, r.phase = "answered" => Genuine(r, boards),
           NEW s \in Broken(r)
    PROVE  /\ s \in Request /\ s.phase \in {"answered", "lost"}
           /\ s.phase = "answered" => Genuine(s, boards)
<1>1. r # None /\ r.body \in Seq(Sample) /\ r.size \in Nat
    BY MonitorAssumption DEF Request
<1>2. r = [phase |-> r.phase, body |-> r.body, size |-> r.size]
    BY DEF Request
<1>3. CASE s = [r EXCEPT !.phase = "lost", !.body = <<>>]
    <2>1. s = [phase |-> "lost", body |-> <<>>, size |-> r.size]
        BY <1>2, <1>3
    <2>2. <<>> \in Seq(Sample)
        BY EmptySeq
    <2>3. QED
        BY <1>1, <2>1, <2>2 DEF Request
<1>4. ASSUME r.phase = "answered", NEW n \in 0..Len(r.body),
             s = [r EXCEPT !.body = SubSeq(@, 1, n)]
      PROVE  s \in Request /\ s.phase = "answered" /\ Genuine(s, boards)
    <2> DEFINE cut == SubSeq(r.body, 1, n)
    <2>1. s = [phase |-> "answered", body |-> cut, size |-> r.size]
        BY <1>2, <1>4
    <2>2. Len(r.body) \in Nat /\ n \in Nat
        BY <1>1, LenProperties
    <2>3. cut \in Seq(Sample) /\ Len(cut) = n
        <3>1. \A i \in 1..n : r.body[i] \in Sample
            BY <1>1, <2>2, ElementOfSeq
        <3>2. cut \in Seq(Sample) /\ Len(cut) = IF 1 <= n THEN n - 1 + 1 ELSE 0
            BY <2>2, <3>1, SubSeqProperties
        <3>3. QED
            BY <2>2, <3>2
    <2>4. n = Len(r.body) => cut = r.body
        BY <1>1, SubSeqFull
    <2>5. Genuine(r, boards)
        BY <1>4
    <2> HIDE DEF cut
    <2>6. Len(s.body) <= s.size
        BY <1>1, <2>1, <2>2, <2>3, <2>5 DEF Genuine
    <2>7. ASSUME Len(s.body) = s.size
          PROVE  s.body = <<>> \/ \E b \in boards : s.body = Render(b)
        <3>1. n = Len(r.body) /\ Len(r.body) = r.size
            BY <1>1, <2>1, <2>2, <2>3, <2>5, <2>7 DEF Genuine
        <3>2. s.body = r.body
            BY <2>1, <2>4, <3>1
        <3>3. QED
            BY <2>5, <3>1, <3>2 DEF Genuine
    <2>8. s \in Request
        BY <1>1, <2>1, <2>3 DEF Request
    <2>9. QED
        BY <2>1, <2>6, <2>7, <2>8 DEF Genuine
<1>5. QED
    BY <1>1, <1>3, <1>4 DEF Broken

LEMMA GoneKeeps ==
    ASSUME DaemonOK, ViewOK, ScrapeOK, Gone
    PROVE  DaemonOK' /\ ViewOK' /\ ScrapeOK'
<1>1. DaemonOK'
    <2>1. /\ daemon' = "down" /\ configs' = <<>> /\ bound' = FALSE
          /\ snapshots' = <<>> /\ board' = <<>>
        BY DEF Gone
    <2>2. \A i \in DOMAIN configs' : Label(configs'[i]) \in Range(Labels)
        BY <2>1, Nothing
    <2>3. Len(board') = 0 /\ Len(configs') = 0
        BY <2>1, Nothing
    <2>4. configs' \in Seq(Range(configs')) /\ snapshots' \in Seq(Snapshot) /\ board' \in Seq(Snapshot)
        BY <2>1, Nothing
    <2>5. QED
        BY <2>1, <2>2, <2>3, <2>4 DEF DaemonOK
<1>2. ViewOK'
    BY ViewStays DEF Gone
<1>3. request' \in Broken(request) /\ UNCHANGED <<app, offered>>
    BY DEF Gone
<1>4. ScrapeOK'
    <2>1. CASE request = None
        <3>1. request' = None
            BY <1>3, <2>1 DEF Broken
        <3>2. QED
            BY <1>3, <2>1, <3>1 DEF ScrapeOK, Pending
    <2>2. CASE request # None
        <3>1. request \in Request /\ (request.phase = "answered" => Genuine(request, offered))
            BY <2>2 DEF ScrapeOK
        <3>2. /\ request' \in Request /\ request'.phase \in {"answered", "lost"}
              /\ request'.phase = "answered" => Genuine(request', offered)
            BY <1>3, <3>1, CutKeeps
        <3>3. request' # None
            BY <3>2, MonitorAssumption
        <3>4. QED
            BY <1>3, <2>2, <3>2, <3>3 DEF ScrapeOK, Pending, app
    <2>3. QED
        BY <2>1, <2>2
<1>5. QED
    BY <1>1, <1>2, <1>4

-----------------------------------------------------------------------------
(* The steps of endpoint and viewer *)

LEMMA ServeKeeps ==
    ASSUME DaemonOK, ViewOK, ScrapeOK, Serve
    PROVE  DaemonOK' /\ ViewOK' /\ ScrapeOK'
<1>1. DaemonOK' /\ ViewOK'
    BY DaemonStays, ViewStays DEF Serve
<1> DEFINE body == IF path = "/metrics" THEN Render(board) ELSE <<>>
<1>2. /\ Pending /\ request' = [phase |-> "answered", body |-> body, size |-> Len(body)]
      /\ UNCHANGED <<loop, app, offered>>
    BY DEF Serve
<1>3. body \in Seq(Sample) /\ (body = <<>> \/ body = Render(board))
    <2>1. Render(board) \in Seq(Sample) /\ <<>> \in Seq(Sample)
        BY RenderFacts, EmptySeq DEF DaemonOK
    <2>2. QED
        BY <2>1
<1> HIDE DEF body
<1>4. Len(body) \in Nat
    BY <1>3, LenProperties
<1>5. request' \in Request
    BY <1>2, <1>3, <1>4 DEF Request
<1>6. request' # None
    BY <1>5, MonitorAssumption
<1>7. Genuine(request', offered')
    BY <1>2, <1>3, <1>4 DEF Genuine, ScrapeOK
<1>8. ScrapeOK'
    BY <1>2, <1>5, <1>6, <1>7 DEF ScrapeOK, Pending, app
<1>9. QED
    BY <1>1, <1>8

LEMMA AskKeeps ==
    ASSUME DaemonOK, ViewOK, ScrapeOK, request = None, Ask, viewing' = TRUE, UNCHANGED loop
    PROVE  ScrapeOK' /\ error' \in {None, "transport", "status", "no series"}
<1>1. CASE Serving
    <2>1. /\ request' = [phase |-> "asked", body |-> <<>>, size |-> 0]
          /\ offered' = {board} /\ error' = error
        BY <1>1 DEF Ask
    <2>2. request' \in Request
        BY <2>1, EmptySeq DEF Request
    <2>3. request' # None
        BY <2>2, MonitorAssumption
    <2>4. QED
        BY <2>1, <2>2, <2>3 DEF ScrapeOK, DaemonOK, ViewOK, Pending, loop
<1>2. CASE ~Serving
    BY <1>2 DEF Ask, ScrapeOK, scrape, Pending
<1>3. QED
    BY <1>1, <1>2

LEMMA AnswerKeeps ==
    ASSUME DaemonOK, ViewOK, ScrapeOK, Answer
    PROVE  DaemonOK' /\ ViewOK' /\ ScrapeOK'
<1>1. DaemonOK' /\ ScrapeOK'
    BY DaemonStays, ScrapeIsOver DEF Answer
<1>2. request.body \in Seq(Sample) /\ Len(shown) \in Nat
    BY LenProperties DEF Answer, ScrapeOK, Request, ViewOK
<1>3. /\ shown' = shown \/ shown' = Merge(shown, request.body)
      /\ error' \in {None, "transport", "status", "no series"}
      /\ UNCHANGED <<viewing, path, selected, paused>>
    BY DEF Answer
<1>4. shown' \in Seq(Tab) /\ OneTabEach(shown') /\ Len(shown') >= Len(shown) /\ Len(shown') \in Nat
    <2>1. shown \in Seq(Tab) /\ OneTabEach(shown)
        BY DEF ViewOK
    <2>2. CASE shown' = shown
        BY <1>2, <2>1, <2>2
    <2>3. CASE shown' = Merge(shown, request.body)
        BY <1>2, <2>1, <2>3, MergeFacts, LenProperties
    <2>4. QED
        BY <1>3, <2>2, <2>3
<1>5. selected' \in Nat \ {0} /\ (selected' = 1 \/ selected' <= Len(shown'))
    <2>1. selected \in Nat \ {0} /\ (selected = 1 \/ selected <= Len(shown))
        BY DEF ViewOK
    <2>2. selected' = selected
        BY <1>3
    <2>3. Len(shown) \in Nat /\ Len(shown') \in Nat /\ Len(shown') >= Len(shown)
        BY <1>2, <1>4
    <2>4. \A x, m, n \in Nat : x <= m /\ n >= m => x <= n
        OBVIOUS
    <2>5. QED
        BY <2>1, <2>2, <2>3, <2>4
<1>6. viewing' \in BOOLEAN /\ paused' \in BOOLEAN /\ path' \in Paths \union {"/metrics"}
    BY <1>3 DEF ViewOK
<1>7. ViewOK'
    BY <1>3, <1>4, <1>5, <1>6 DEF ViewOK
<1>8. QED
    BY <1>1, <1>7

LEMMA SelectKeeps ==
    ASSUME DaemonOK, ViewOK, ScrapeOK, Select
    PROVE  DaemonOK' /\ ViewOK' /\ ScrapeOK'
<1>1. DaemonOK' /\ ScrapeOK'
    BY DaemonStays, ScrapeStays DEF Select, loop
<1>2. Len(shown) \in Nat \ {0}
    BY EmptySeq DEF Select, ViewOK
<1>3. selected \in Nat \ {0} /\ (selected = 1 \/ selected <= Len(shown))
    BY DEF ViewOK
<1>4. (selected % Len(shown)) + 1 \in 1..Len(shown)
    <2>1. \A a \in Nat, b \in Nat \ {0} : (a % b) + 1 \in 1..b
        BY SMT
    <2>2. QED
        BY <1>2, <1>3, <2>1
<1>5. selected' \in Nat \ {0} /\ (selected' = 1 \/ selected' <= Len(shown))
    <2> DEFINE next == (selected % Len(shown)) + 1
    <2>1. selected' = next \/ selected' = IF selected = 1 THEN Len(shown) ELSE selected - 1
        BY DEF Select
    <2>2. next \in 1..Len(shown)
        BY <1>4
    <2> HIDE DEF next
    <2>3. QED
        BY <1>2, <1>3, <2>1, <2>2
<1>6. ViewOK'
    BY <1>5 DEF Select, ViewOK
<1>7. QED
    BY <1>1, <1>6

LEMMA NextOK == IInv /\ [Next]_vars => IInv'
<1> SUFFICES ASSUME IInv, [Next]_vars PROVE IInv'
    OBVIOUS
<1>1. DaemonOK /\ ViewOK /\ ScrapeOK /\ CountsOK'
    BY CountsKept DEF IInv
<1>2. CASE Loop
    BY <1>1, <1>2, TurnKeeps DEF Loop, IInv
<1>3. CASE Exit \/ Crash
    BY <1>1, <1>3, GoneKeeps DEF Exit, Crash, IInv
<1>4. CASE Serve
    BY <1>1, <1>4, ServeKeeps DEF IInv
<1>5. ASSUME NEW p \in Paths, Open(p) PROVE IInv'
    <2>1. /\ request = None /\ viewing' = TRUE /\ path' = p /\ Ask
          /\ UNCHANGED <<life, loop, shown, selected, paused>>
        BY <1>1, <1>5 DEF Open, ScrapeOK
    <2>2. ScrapeOK' /\ error' \in {None, "transport", "status", "no series"}
        BY <1>1, <2>1, AskKeeps
    <2>3. ViewOK'
        BY <1>1, <2>1, <2>2 DEF ViewOK
    <2>4. QED
        BY <1>1, <2>1, <2>2, <2>3, DaemonStays DEF IInv
<1>6. CASE Poll
    <2>1. /\ request = None /\ viewing' = TRUE /\ Ask
          /\ UNCHANGED <<life, loop, viewing, path, shown, selected, paused>>
        BY <1>1, <1>6 DEF Poll, Idle, ViewOK
    <2>2. ScrapeOK' /\ error' \in {None, "transport", "status", "no series"}
        BY <1>1, <2>1, AskKeeps
    <2>3. ViewOK'
        BY <1>1, <2>1, <2>2 DEF ViewOK
    <2>4. QED
        BY <1>1, <2>1, <2>2, <2>3, DaemonStays DEF IInv
<1>7. CASE Answer
    BY <1>1, <1>7, AnswerKeeps DEF IInv
<1>8. CASE Lost \/ TimesOut
    <2>1. Fails
        BY <1>8 DEF Lost, TimesOut
    <2>2. ViewOK'
        BY <1>1, <2>1 DEF Fails, ViewOK
    <2>3. QED
        BY <1>1, <2>1, <2>2, DaemonStays, ScrapeIsOver DEF Fails, IInv
<1>9. ASSUME NEW command \in Commands, Start(command) PROVE IInv'
    BY <1>1, <1>9, StartKeeps DEF IInv
<1>10. CASE Signal
    BY <1>1, <1>10, SignalKeeps DEF IInv
<1>11. CASE TogglePause
    <2>1. ViewOK'
        BY <1>1, <1>11 DEF TogglePause, ViewOK
    <2>2. QED
        BY <1>1, <1>11, <2>1, DaemonStays, ScrapeStays DEF TogglePause, loop, IInv
<1>12. CASE Select
    BY <1>1, <1>12, SelectKeeps DEF IInv
<1>13. CASE Quit
    <2>1. /\ request = None /\ viewing' = FALSE /\ path' = "/metrics" /\ shown' = <<>>
          /\ selected' = 1 /\ paused' = FALSE /\ error' = None /\ UNCHANGED <<life, loop, scrape>>
        BY <1>13 DEF Quit, Idle
    <2>2. ViewOK'
        <3>1. shown' \in Seq(Tab)
            BY <2>1, Nothing
        <3>2. OneTabEach(shown')
            BY <2>1, Nothing
        <3>3. /\ viewing' \in BOOLEAN /\ paused' \in BOOLEAN
              /\ path' \in Paths \union {"/metrics"}
            BY <2>1
        <3>4. selected' = 1 /\ error' = None
            BY <2>1
        <3>5. QED
            BY <3>1, <3>2, <3>3, <3>4 DEF ViewOK
    <2>3. ScrapeOK'
        BY <1>1, <2>1 DEF ScrapeOK, scrape, Pending
    <2>4. QED
        BY <1>1, <2>1, <2>2, <2>3, DaemonStays DEF IInv
<1>14. CASE UNCHANGED vars
    BY <1>1, <1>14, DaemonStays, ViewStays, ScrapeStays DEF vars, app, loop, IInv
<1>15. CASE Operator
    BY <1>5, <1>9, <1>10, <1>11, <1>12, <1>13, <1>15 DEF Operator
<1>16. CASE Viewer
    BY <1>6, <1>7, <1>8, <1>16 DEF Viewer
<1>17. QED
    BY <1>2, <1>3, <1>4, <1>8, <1>14, <1>15, <1>16 DEF Next

-----------------------------------------------------------------------------
(* What a refresh shows *)

(* Only an answer changes what is shown, unless the viewer is closed. *)
LEMMA OnlyAnswersMerge ==
    [Next]_vars /\ ~Quit => shown' = shown \/ (shown' = Merge(shown, request.body) /\ Answer)
<1> SUFFICES ASSUME [Next]_vars, ~Quit
             PROVE  shown' = shown \/ (shown' = Merge(shown, request.body) /\ Answer)
    OBVIOUS
<1>1. CASE Loop
    BY <1>1 DEF Loop, Turn, app
<1>2. CASE Exit \/ Crash
    BY <1>2 DEF Exit, Crash, Gone, app
<1>3. CASE Serve
    BY <1>3 DEF Serve, app
<1>4. CASE Viewer
    BY <1>4 DEF Viewer, Poll, Answer, Lost, Fails
<1>5. CASE TimesOut
    BY <1>5 DEF TimesOut, Fails
<1>6. ASSUME NEW command \in Commands, Start(command) PROVE shown' = shown
    BY <1>6 DEF Start, app
<1>7. CASE Operator
    BY <1>6, <1>7 DEF Operator, Signal, Open, TogglePause, Select, app
<1>8. CASE UNCHANGED vars
    BY <1>8 DEF vars, app
<1>9. QED
    BY <1>1, <1>2, <1>3, <1>4, <1>5, <1>7, <1>8 DEF Next

LEMMA BoardIsShown ==
    ASSUME NEW b \in Seq(Snapshot), Render(b) # <<>>, NEW programs \in Seq(Tab), OneTabEach(programs)
    PROVE  /\ NamesIn(b) = NamesIn(Render(b))
           /\ Shows(Merge(programs, Render(b)), b)
           /\ \A k \in DOMAIN programs :
                 programs[k].name \notin NamesIn(b) => Merge(programs, Render(b))[k] = programs[k]
<1> DEFINE merged == Merge(programs, Render(b))
<1>1. Render(b) \in Seq(Sample)
    BY RenderFacts
<1>2. Series # <<>>
    <2>1. 1 \in DOMAIN Render(b)
        BY <1>1, EmptySeq, LenProperties
    <2>2. PICK i \in DOMAIN b, j \in DOMAIN Series : 1 = Place(b, i, j)
        BY <2>1, RenderFacts
    <2>3. QED
        BY <2>2, Nothing
<1>3. NamesIn(b) = NamesIn(Render(b))
    BY <1>2, NamesRendered
<1>4. ASSUME NEW i \in DOMAIN b, \A h \in DOMAIN b : h > i => b[h].name # b[i].name
      PROVE  \E k \in DOMAIN merged : merged[k] = b[i]
    <2>1. ValuesIn(Render(b), b[i].name) = b[i].values
        BY <1>4, LaterIsRead
    <2>2. b[i].name \in NamesIn(Render(b))
        BY <1>3 DEF NamesIn
    <2>3. PICK k \in DOMAIN merged :
             merged[k] = [name |-> b[i].name, values |-> ValuesIn(Render(b), b[i].name)]
        BY <1>1, <2>2, MergeFacts
    <2>4. b[i] \in Snapshot
        BY ElementOfSeq, LenProperties
    <2>5. b[i] = [name |-> b[i].name, values |-> b[i].values]
        BY <2>4 DEF Snapshot
    <2>6. QED
        BY <2>1, <2>3, <2>5
<1>5. Shows(merged, b)
    BY <1>4 DEF Shows
<1>6. ASSUME NEW k \in DOMAIN programs, programs[k].name \notin NamesIn(b)
      PROVE  merged[k] = programs[k]
    BY <1>1, <1>3, <1>6, MergeFacts
<1>7. QED
    BY <1>3, <1>5, <1>6

LEMMA AnswerShowsOneTick ==
    ASSUME IInv, Answer
    PROVE  \/ shown' = shown
           \/ Len(request.body) < request.size
           \/ \E b \in offered :
                 /\ NamesIn(b) = NamesIn(request.body)
                 /\ Shows(shown', b)
                 /\ \A k \in DOMAIN shown : shown[k].name \notin NamesIn(b) => shown'[k] = shown[k]
<1>1. /\ shown \in Seq(Tab) /\ OneTabEach(shown)
      /\ request \in Request /\ Genuine(request, offered) /\ offered \in SUBSET Seq(Snapshot)
    BY DEF IInv, ViewOK, ScrapeOK, Answer
<1>2. shown' = shown \/ shown' = Merge(shown, request.body)
    BY DEF Answer
<1>3. /\ request.body \in Seq(Sample) /\ Len(request.body) \in Nat /\ request.size \in Nat
      /\ Len(request.body) <= request.size
    BY <1>1, LenProperties DEF Request, Genuine
<1>4. CASE shown' = Merge(shown, request.body) /\ request.body = <<>>
    BY <1>1, <1>3, <1>4, MergeFacts
<1>5. CASE shown' = Merge(shown, request.body) /\ request.body # <<>>
                /\ ~(Len(request.body) < request.size)
    <2>1. Len(request.body) = request.size
        BY <1>3, <1>5
    <2>2. PICK b \in offered : request.body = Render(b)
        BY <1>1, <1>5, <2>1 DEF Genuine
    <2>3. b \in Seq(Snapshot) /\ Render(b) # <<>>
        BY <1>1, <1>5, <2>2
    <2>4. /\ NamesIn(b) = NamesIn(request.body)
          /\ Shows(shown', b)
          /\ \A k \in DOMAIN shown : shown[k].name \notin NamesIn(b) => shown'[k] = shown[k]
        BY <1>1, <1>5, <2>2, <2>3, BoardIsShown
    <2>5. QED
        BY <2>4
<1>6. QED
    BY <1>2, <1>4, <1>5

-----------------------------------------------------------------------------
(* The theorems *)

LEMMA InitGood == Init => LoadedIsRunnable /\ HostSettingsAgree
BY DEF Init, LoadedIsRunnable, HostSettingsAgree

LEMMA NextGood ==
    LoadedIsRunnable /\ HostSettingsAgree /\ [Next]_vars
        => LoadedIsRunnable' /\ HostSettingsAgree'
<1> SUFFICES ASSUME LoadedIsRunnable, HostSettingsAgree, [Next]_vars
             PROVE  LoadedIsRunnable' /\ HostSettingsAgree'
    OBVIOUS
<1>1. CASE UNCHANGED configs
    BY <1>1 DEF LoadedIsRunnable, HostSettingsAgree
<1>2. CASE configs' = <<>>
    BY <1>2 DEF LoadedIsRunnable, HostSettingsAgree
<1>3. ASSUME NEW command \in Commands, Start(command)
      PROVE  LoadedIsRunnable' /\ HostSettingsAgree'
    <2>1. IsFile(command.file)
        BY MonitorAssumption
    <2>2. configs' = Settings(command.file, command.mode) /\ configs' # Bad
        BY <1>3 DEF Start
    <2>3. \A i \in DOMAIN configs' :
             IsRunnable(Params(configs'[i])) /\ HostSettings(configs'[i]) = HostSettings(configs'[1])
        BY <2>1, <2>2, SettingsAreGood
    <2>4. QED
        BY <2>3 DEF LoadedIsRunnable, HostSettingsAgree
<1>4. CASE Loop
    BY <1>1, <1>4 DEF Loop, Turn, life
<1>5. CASE Exit
    BY <1>2, <1>5 DEF Exit, Gone
<1>6. CASE Crash
    BY <1>2, <1>6 DEF Crash, Gone
<1>7. CASE Serve
    BY <1>1, <1>7 DEF Serve, life
<1>8. CASE Viewer
    BY <1>1, <1>8 DEF Viewer, Poll, Answer, Lost, Fails, life
<1>9. CASE TimesOut
    BY <1>1, <1>9 DEF TimesOut, Fails, life
<1>10. CASE Operator
    BY <1>1, <1>3, <1>10 DEF Operator, Signal, Open, TogglePause, Select, Quit, life
<1>11. CASE UNCHANGED vars
    BY <1>1, <1>11 DEF vars, life
<1>12. QED
    BY <1>4, <1>5, <1>6, <1>7, <1>8, <1>9, <1>10, <1>11 DEF Next

(* Whatever file the daemon accepts, and whatever --mode it is given after the file was
   checked (main.rs:72), the loop gets parameters it can run on. *)
THEOREM AcceptedCanRun == Spec => []LoadedIsRunnable
<1>1. QED
    BY InitGood, NextGood, PTL DEF Spec

(* Whatever file the daemon accepts, run() may take the host settings from any of its
   entries (main.rs:300), although validate() fills in the headroom by mode. *)
THEOREM EntriesAgreeOnHost == Spec => []HostSettingsAgree
<1>1. QED
    BY InitGood, NextGood, PTL DEF Spec

LEMMA Invariance == Spec => []IInv
<1>1. QED
    BY InitOK, NextOK, PTL DEF Spec

(* Every variable of loop, endpoint and viewer keeps its type, whatever file, restarts,
   labels and series there are; a board is that of a whole tick of this life, no label
   gets a second tab, and the selected tab exists, though a tab is selected by its number
   and merge() adds to them (tui.rs:124). *)
THEOREM TypeCorrect == Spec => []TypeOK
<1>1. QED
    BY Invariance, TypeFollows, PTL

(* Whatever is published, cancelled, restarted or broken off while a scrape is under way,
   a refresh that arrives whole shows one board, of a tick that was the last one at some
   time between request and answer, and leaves the tabs of other programs alone
   (metrics.rs renders under the lock, tui.rs:124 merges). *)
THEOREM ViewShowsOneTick == Spec => ViewFollowsDaemon
<1>1. ASSUME IInv, [Next]_vars
      PROVE  Refreshed =>
                \/ shown' = shown
                \/ Len(request.body) < request.size
                \/ \E b \in offered :
                      /\ NamesIn(b) = NamesIn(request.body)
                      /\ Shows(shown', b)
                      /\ \A k \in DOMAIN shown :
                            shown[k].name \notin NamesIn(b) => shown'[k] = shown[k]
    <2>1. ASSUME Refreshed PROVE ~Quit
        BY <2>1 DEF Quit, Idle, Refreshed
    <2>2. QED
        BY <1>1, <2>1, OnlyAnswersMerge, AnswerShowsOneTick
<1>2. QED
    BY <1>1, Invariance, PTL DEF ViewFollowsDaemon, Spec

(* Tabs are selected by number (tui.rs:295) and merge() may add some at any refresh: the
   number still stands for the same program, until the viewer is closed. *)
THEOREM TabsStay ==
    Spec => [][viewing' => \A k \in DOMAIN shown :
                              /\ k \in DOMAIN shown'
                              /\ shown'[k].name = shown[k].name]_vars
<1>1. ASSUME IInv, [Next]_vars, viewing'
      PROVE  \A k \in DOMAIN shown :
                /\ k \in DOMAIN shown'
                /\ shown'[k].name = shown[k].name
    <2>1. CASE shown' = shown
        BY <2>1
    <2>2. CASE shown' = Merge(shown, request.body) /\ Answer
        <3>1. /\ shown \in Seq(Tab) /\ OneTabEach(shown) /\ request \in Request
            BY <1>1, <2>2 DEF IInv, ViewOK, ScrapeOK, Answer
        <3>2. request.body \in Seq(Sample)
            BY <3>1 DEF Request
        <3>3. QED
            BY <2>2, <3>1, <3>2, MergeFacts
    <2>3. shown' = shown \/ (shown' = Merge(shown, request.body) /\ Answer)
        <3>1. ~Quit
            BY <1>1 DEF Quit
        <3>2. QED
            BY <1>1, <3>1, OnlyAnswersMerge
    <2>4. QED
        BY <2>1, <2>2, <2>3
<1>2. QED
    BY <1>1, Invariance, PTL DEF Spec

=============================================================================
