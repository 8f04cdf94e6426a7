------------------------------- MODULE Monitor -------------------------------
(***************************************************************************)
(* What an operator sees of the daemon: the file it was started with        *)
(* (module Config), the snapshots the loop of src/main.rs publishes, the    *)
(* endpoint of src/metrics.rs, and `effiqueue top` (src/tui.rs over         *)
(* src/http.rs), which shows them.                                          *)
(*                                                                          *)
(* The daemon, the endpoint's task and the viewer run beside one another; a *)
(* scrape is under way while ticks are published, cancelled and restarted.  *)
(* A snapshot keeps the series of `Series`; formatting and parsing a sample *)
(* is one line of a body, and a body that breaks off, does so after a line. *)
(***************************************************************************)
EXTENDS Config, Runnable

CONSTANTS
    Commands,  \* what the operator may start the daemon with: a file, and --mode or None
    Labels,    \* program labels, in alphabetical order
    Series,    \* the series of a snapshot, in the order render() writes them
    Readings,  \* snapshots a program's turn may end with, less the name
    Paths,     \* paths the viewer may be pointed at
    MaxStarts, \* bound: starts of the daemon
    MaxFaults  \* bound: endpoints not bound, crashes and requests timed out

Snapshot == [name : Range(Labels), values : Readings]

(* A line of a body, and a request as far as the daemon's end has come with it. *)
Sample  == [name : Range(Labels), series : Range(Series), value : Int]
Request == [phase : {"asked", "answered", "lost"}, body : Seq(Sample), size : Nat]

ASSUME MonitorAssumption ==
    /\ \A command \in Commands :
          /\ IsFile(command.file)
          /\ LET settings == Settings(command.file, command.mode)
             IN  settings # Bad => \A i \in DOMAIN settings : Label(settings[i]) \in Range(Labels)
    /\ Labels \in Seq(Range(Labels)) /\ IsInjective(Labels)
    /\ Series \in Seq(Range(Series))
    /\ Readings \subseteq [Range(Series) -> Int]
    /\ MaxStarts \in Nat /\ MaxFaults \in Nat
    /\ None \notin Request

VARIABLES
    daemon,    \* "down", "up" or "stopping"
    configs,   \* what the daemon runs with
    bound,     \* whether metrics::serve listens
    snapshots, \* what the tick has gathered so far
    board,     \* Metrics.programs
    starts, faults,
    viewing,   \* whether a viewer is open
    path,      \* App.path
    shown,     \* App.programs, a sequence of names with the values of their series
    selected,  \* App.selected, from 1
    paused,    \* App.paused
    error,     \* App.error: None, "transport", "status" or "no series"
    request,   \* the refresh under way, or None
    offered    \* the boards of whole ticks the endpoint could have answered it with (history)

life   == <<daemon, configs, bound>>
loop   == <<snapshots, board>>
app    == <<viewing, path, shown, selected, paused, error>>
scrape == <<request, offered>>
vars   == <<life, loop, starts, faults, app, scrape>>

Serving == daemon # "down" /\ bound

(* The endpoint has yet to answer. *)
Pending == request # None /\ request.phase = "asked"

Init ==
    /\ daemon = "down" /\ configs = <<>> /\ bound = FALSE
    /\ snapshots = <<>> /\ board = <<>>
    /\ starts = 0 /\ faults = 0
    /\ viewing = FALSE /\ path = "/metrics" /\ shown = <<>> /\ selected = 1
    /\ paused = FALSE /\ error = None
    /\ request = None /\ offered = {}

-----------------------------------------------------------------------------
(* The daemon *)

Fault == faults < MaxFaults /\ faults' = faults + 1

(* main() and run() up to the loop.  A file or a --mode that is refused ends the process
   at once; an endpoint that cannot be bound does not. *)
Start(command) ==
    /\ daemon = "down"
    /\ starts < MaxStarts
    /\ configs' = Settings(command.file, command.mode)
    /\ configs' # Bad
    /\ starts' = starts + 1
    /\ daemon' = "up"
    /\ \/ bound' = (configs'[1].metrics_addr # None) /\ UNCHANGED faults
       \/ configs'[1].metrics_addr # None /\ bound' = FALSE /\ Fault
    /\ UNCHANGED <<loop, app, scrape>>

(* Mutant: every program's snapshot is published as it comes. *)
TurnPublishes(reading) ==
    LET next  == Len(snapshots) + 1
        taken == Append(snapshots, [name |-> Label(configs[next]), values |-> reading])
    IN  /\ daemon = "up"
        /\ board' = taken
        /\ IF next < Len(configs)
           THEN snapshots' = taken /\ UNCHANGED offered
           ELSE /\ snapshots' = <<>>
                /\ offered' = IF Pending THEN offered \union {taken} ELSE offered
        /\ UNCHANGED <<life, starts, faults, app, request>>

(* A program's turn in the tick ends with its snapshot, on the error path as well; the
   last one publishes them all. *)
Turn(reading) ==
    LET next  == Len(snapshots) + 1
        taken == Append(snapshots, [name |-> Label(configs[next]), values |-> reading])
    IN  /\ daemon = "up"
        /\ IF next < Len(configs)
           THEN snapshots' = taken /\ UNCHANGED <<board, offered>>
           ELSE /\ snapshots' = <<>>
                /\ board' = taken
                /\ offered' = IF Pending THEN offered \union {taken} ELSE offered
        /\ UNCHANGED <<life, starts, faults, app, request>>

(* The signal drops the tick; while the workers drain the endpoint goes on serving. *)
Signal ==
    /\ daemon = "up"
    /\ daemon' = "stopping"
    /\ snapshots' = <<>>
    /\ UNCHANGED <<configs, bound, board, starts, faults, app, scrape>>

(* With the process its connections end: an answer on its way arrives or breaks off, a
   request is lost. *)
Broken(r) ==
    IF r = None THEN {None}
    ELSE {[r EXCEPT !.phase = "lost", !.body = <<>>]} \union
         IF r.phase = "answered"
         THEN {[r EXCEPT !.body = SubSeq(@, 1, n)] : n \in 0..Len(r.body)}
         ELSE {}

Gone ==
    /\ daemon' = "down" /\ configs' = <<>> /\ bound' = FALSE
    /\ snapshots' = <<>> /\ board' = <<>>
    /\ request' \in Broken(request)
    /\ UNCHANGED <<starts, app, offered>>

(* The drains are over. *)
Exit == daemon = "stopping" /\ Gone /\ UNCHANGED faults

(* The daemon is killed. *)
Crash == daemon = "up" /\ Fault /\ Gone

-----------------------------------------------------------------------------
(* The endpoint *)

(* render(): series by series, a sample of every program. *)
Render(b) ==
    [k \in 1..(Len(Series) * Len(b)) |->
        LET p == b[((k - 1) % Len(b)) + 1]
            s == Series[((k - 1) \div Len(b)) + 1]
        IN  [name |-> p.name, series |-> s, value |-> p.values[s]]]

(* The task of one connection: it reads the board under its lock.  The root answers in
   prose, any other path with 404.  `size` remembers how much was sent, for the
   properties. *)
Serve ==
    /\ Pending
    /\ Serving
    /\ LET body == IF path = "/metrics" THEN Render(board) ELSE <<>>
       IN  request' = [phase |-> "answered", body |-> body, size |-> Len(body)]
    /\ UNCHANGED <<life, loop, starts, faults, app, offered>>

-----------------------------------------------------------------------------
(* The viewer *)

(* refresh() connects. *)
Ask ==
    IF Serving
    THEN /\ request' = [phase |-> "asked", body |-> <<>>, size |-> 0]
         /\ offered' = {board}
         /\ error' = error
    ELSE error' = "transport" /\ UNCHANGED scrape

(* main() wants a file that loads for `top` as well, which then uses nothing of it;
   there is one.  run() scrapes once before it draws anything. *)
Open(p) ==
    /\ ~viewing
    /\ viewing' = TRUE
    /\ path' = p
    /\ Ask
    /\ UNCHANGED <<life, loop, starts, faults, shown, selected, paused>>

Idle == viewing /\ request = None

(* The interval is over, or `r` was pressed. *)
Poll ==
    /\ Idle
    /\ ~paused
    /\ Ask
    /\ UNCHANGED <<life, loop, starts, faults, viewing, path, shown, selected, paused>>

(* parse_metrics() and merge() for one program: of two samples of a series the later
   counts, a series without one is 0. *)
ValuesIn(body, name) ==
    [s \in Range(Series) |->
        LET of == {k \in DOMAIN body : body[k].name = name /\ body[k].series = s}
        IN  IF of = {} THEN 0 ELSE body[Max(of)].value]

NamesIn(lines) == {lines[k].name : k \in DOMAIN lines}

Position(name) == CHOOSE i \in DOMAIN Labels : Labels[i] = name

(* The order of a BTreeMap. *)
Sorted(names) ==
    CHOOSE tabs \in [1..Cardinality(names) -> names] :
        \A i, j \in DOMAIN tabs : i < j => Position(tabs[i]) < Position(tabs[j])

(* Mutant: every refresh adds its programs anew. *)
MergeAppends(programs, body) ==
    LET new == Sorted(NamesIn(body))
    IN  programs \o [k \in DOMAIN new |-> [name |-> new[k], values |-> ValuesIn(body, new[k])]]

(* merge(): programs keep their tab, new ones come after them by name, and a program
   without samples stays as it was. *)
Merge(programs, body) ==
    LET new  == Sorted(NamesIn(body) \ NamesIn(programs))
        tabs == [k \in DOMAIN programs |-> programs[k].name] \o new
    IN  [k \in DOMAIN tabs |->
            IF tabs[k] \in NamesIn(body)
            THEN [name |-> tabs[k], values |-> ValuesIn(body, tabs[k])]
            ELSE programs[k]]

(* The refresh is over. *)
Settled == request' = None /\ offered' = {}

(* Mutant: the answer clears no earlier error. *)
AnswerKeepsError ==
    /\ request # None
    /\ request.phase = "answered"
    /\ IF path \in {"/metrics", "/"}
       THEN /\ shown' = Merge(shown, request.body)
            /\ error' = IF shown' = <<>> THEN "no series" ELSE error
       ELSE error' = "status" /\ UNCHANGED shown
    /\ Settled
    /\ UNCHANGED <<life, loop, starts, faults, viewing, path, selected, paused>>

(* The answer is read to its end, wherever the connection ended it; with 404 it stays an
   error. *)
Answer ==
    /\ request # None
    /\ request.phase = "answered"
    /\ IF path \in {"/metrics", "/"}
       THEN /\ shown' = Merge(shown, request.body)
            /\ error' = IF shown' = <<>> THEN "no series" ELSE None
       ELSE error' = "status" /\ UNCHANGED shown
    /\ Settled
    /\ UNCHANGED <<life, loop, starts, faults, viewing, path, selected, paused>>

Fails ==
    /\ error' = "transport"
    /\ Settled
    /\ UNCHANGED <<life, loop, starts, viewing, path, shown, selected, paused>>

(* No header came back. *)
Lost == request # None /\ request.phase = "lost" /\ Fails /\ UNCHANGED faults

(* Three seconds are over: the request is dropped, with what came of it. *)
TimesOut == request # None /\ Fault /\ Fails

TogglePause ==
    /\ Idle
    /\ paused' = ~paused
    /\ UNCHANGED <<life, loop, starts, faults, viewing, path, shown, selected, error, scrape>>

(* The next tab, or the one before; past the last comes the first. *)
Select ==
    /\ Idle
    /\ shown # <<>>
    /\ selected' \in {(selected % Len(shown)) + 1,
                      IF selected = 1 THEN Len(shown) ELSE selected - 1}
    /\ UNCHANGED <<life, loop, starts, faults, viewing, path, shown, paused, error, scrape>>

Quit ==
    /\ Idle
    /\ viewing' = FALSE /\ path' = "/metrics" /\ shown' = <<>> /\ selected' = 1
    /\ paused' = FALSE /\ error' = None
    /\ UNCHANGED <<life, loop, starts, faults, scrape>>

-----------------------------------------------------------------------------
Loop     == \E reading \in Readings : Turn(reading)
Operator == \/ \E command \in Commands : Start(command)
            \/ Signal
            \/ \E p \in Paths : Open(p)
            \/ TogglePause
            \/ Select
            \/ Quit
Viewer   == Poll \/ Answer \/ Lost

Next == Loop \/ Exit \/ Crash \/ Serve \/ Viewer \/ TimesOut \/ Operator

Spec == Init /\ [][Next]_vars

(* The loop ticks, the drains end, a connection is served and the viewer keeps polling.
   The operator and the faults owe nothing. *)
FairSpec ==
    /\ Spec
    /\ WF_vars(Loop) /\ WF_vars(Exit) /\ WF_vars(Serve) /\ WF_vars(Viewer)

-----------------------------------------------------------------------------
(* Properties *)

(* Every variable keeps its type; the tick never holds more snapshots than programs, a
   board is that of a whole tick of this life, and the selected tab exists. *)
TypeOK ==
    /\ daemon \in {"down", "up", "stopping"} /\ bound \in BOOLEAN
    /\ daemon = "down" <=> configs = <<>>
    /\ snapshots \in Seq(Snapshot) /\ board \in Seq(Snapshot)
    /\ configs # <<>> => Len(snapshots) < Len(configs)
    /\ Len(board) \in {0, Len(configs)}
    /\ starts \in 0..MaxStarts /\ faults \in 0..MaxFaults
    /\ viewing \in BOOLEAN /\ paused \in BOOLEAN
    /\ path \in Paths \union {"/metrics"}
    /\ IsInjective([k \in DOMAIN shown |-> shown[k].name])
    /\ selected \in 1..Max({1, Len(shown)})
    /\ error \in {None, "transport", "status", "no series"}
    /\ request # None => request \in Request /\ viewing
    /\ request = None <=> offered = {}

(* Whatever file and --mode the daemon was started with, the loop gets parameters it can
   run on; --mode is set after the file was checked for another mode. *)
LoadedIsRunnable == \A i \in DOMAIN configs : IsRunnable(Params(configs[i]))

(* DESIGN.md, 5.1: cadence, drain time, RAM and endpoint are process-wide.  run() takes
   them from the first entry; every other entry would have given the same. *)
HostSettingsAgree == \A i \in DOMAIN configs : HostSettings(configs[i]) = HostSettings(configs[1])

Refreshed == request # None /\ request' = None

(* What names tell of board b: of two programs of one name the later is shown. *)
Shows(programs, b) ==
    \A i \in DOMAIN b :
        (\A j \in DOMAIN b : j > i => b[j].name # b[i].name) =>
            \E k \in DOMAIN programs : programs[k] = b[i]

(* A refresh whose answer did not break off shows one board as a whole, of a tick that
   was the last one at some time between the request and the answer, and leaves every
   other program's values alone; a refresh that fails leaves all alone. *)
ViewFollowsDaemon ==
    [][Refreshed =>
        \/ shown' = shown
        \/ Len(request.body) < request.size
        \/ \E b \in offered :
              /\ NamesIn(b) = NamesIn(request.body)
              /\ Shows(shown', b)
              /\ \A k \in DOMAIN shown : shown[k].name \notin NamesIn(b) => shown'[k] = shown[k]
      ]_vars

Watchable == daemon = "up" /\ bound /\ board # <<>> /\ viewing /\ ~paused /\ path = "/metrics"

(* While a daemon publishes and a viewer watches, the view gets rid of every earlier
   error and has a tab for every label, whatever restarts, lost answers and timeouts
   came before. *)
ViewerCatchesUp ==
    <>[]Watchable => <>[](error = None /\ NamesIn(board) \subseteq NamesIn(shown))

(* tui.rs, refresh(): "endpoint responded but exposed no effiqueue series" is an error, so
   an answer that had none does not leave the view marked live. *)
EmptyAnswerIsError ==
    [][Refreshed /\ request.phase = "answered" /\ request.size = 0 => error' # None]_vars

=============================================================================
