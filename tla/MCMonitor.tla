----------------------------- MODULE MCMonitor -------------------------------
(* Monitor on files that differ in what the loading and the endpoint tell apart. *)
EXTENDS Monitor

Amount(n, unit) == [n |-> n, unit |-> unit]

Toml(global, programs) == [format |-> "toml", global |-> global, programs |-> programs]

Conf(lines) == [format |-> "conf", lines |-> [i \in DOMAIN lines |->
                   [key |-> lines[i][1], value |-> lines[i][2]]]]

Broker == [queue_connection |-> "amqp"]

(* The example of data/config.multi.toml: a program per mode, and an endpoint.  The RAM
   setting in the second entry is dropped. *)
TwoModes ==
    Toml(Broker @@ [metrics_addr |-> "addr", poll_interval |-> Amount(1, "m"),
                    ram_budget |-> Amount(1, "GB")],
         <<[process_name |-> "mailer", command |-> "b", queue_name |-> "qb",
            mode |-> "threshold", max_cooldown_ticks |-> 0],
           [process_name |-> "index", command |-> "a", queue_name |-> "qa",
            slo_drain_time |-> Amount(120, "s"), max_workers |-> 2, ram_budget |-> Amount(2, "GB")]>>)

(* Two programs that inherit the default process_name; the first leaves the headroom to
   run(), the second to validate(). *)
OneLabel ==
    Toml(Broker @@ [command |-> "a", max_workers |-> 2, metrics_addr |-> "addr"],
         <<[queue_name |-> "qa", mode |-> "threshold", min_workers |-> 1],
           [queue_name |-> "qb", slo_drain_time |-> Amount(1, "h")]>>)

(* A Supervisor file: its sections run into one program, and a threshold program may have
   both RAM settings and no drain time. *)
Sections ==
    Conf(<< <<"[program:a]", None>>, <<"command", "a">>, <<"queue_connection", "amqp">>,
            <<"queue_name", "qa">>, <<"mode", "threshold">>, <<"max_workers", 3>>,
            <<"ram_budget", Amount(4, "KB")>>, <<"ram_headroom", Amount(2, "MB")>>,
            <<"[program:b]", None>>, <<"command", "b">>, <<"max", 4>>, <<"max_workers", 2>>,
            <<"min_workers", 1>> >>)

Refusable ==
    {[max_workers |-> 0], [queue |-> "redis"], [command |-> ""], [mode |-> "auto"],
     [slo_drain_time |-> Amount(U64, "h")], [alpha_mu |-> 0], [min_workers |-> 3],
     [shell |-> Bad], [ram_headroom |-> Amount(1, "GB")], [poll_interval |-> Amount(None, "s")]}

Plain == Broker @@ [command |-> "a", queue_name |-> "qa", max_workers |-> 2,
                    slo_drain_time |-> Amount(1, "s"), ram_budget |-> Amount(1, "MB")]

Refused == {Toml(flaw @@ Plain, <<>>) : flaw \in Refusable}

(* Every file as it is, and those without an endpoint in a mode they were not written
   for as well. *)
SomeCommands ==
    [file : {TwoModes, OneLabel, Sections} \union Refused, mode : {None}] \union
    [file : {Sections, [TwoModes EXCEPT !.global = Only(@, DOMAIN @ \ {"metrics_addr"})]},
     mode : {"slo", "auto"}]

(* A read that failed, and one that found work no worker could be added for. *)
TwoReadings ==
    {[workers_needed |-> -1, feasibility_gap |-> 0],
     [workers_needed |-> 3, feasibility_gap |-> 2]}

TabOrder == <<"consumer", "index", "mailer">>

SomeSeries == <<"workers_needed", "feasibility_gap">>

=============================================================================
