------------------------------- MODULE JobsMC -------------------------------
(***************************************************************************)
(* Configurations for the model checker: every form of the keys, templates *)
(* and overrides, and the ways in which a file can be wrong, with and      *)
(* without being refused.                                                  *)
(***************************************************************************)
EXTENDS Jobs

Named(n) == Part(n, 0, 0)

Variant(n, common, specific) ==
    [name |-> Named(n), template |-> Absent, supported_modes |-> Absent,
     common |-> common, specific |-> specific]

\* The keys each variant has, with its rates.
Usual(hz, vpt) ==
    [log_dir |-> "./logs", workload |-> "scalar", tick_rate_hz |-> hz, values_per_tick |-> vpt]

NoKeys == [k \in {} |-> 0]

File(variants) ==
    [variants |-> variants, templates |-> NoKeys, cliDir |-> Absent, runnerDir |-> Absent,
     overrides |-> <<>>]

\* Rates out of order and twice, QoS omitted, a template that gives what one of
\* the variants has itself, two overrides of one key.
Templates ==
    LET base == [common |-> Usual(<<20, 10, 20>>, <<1>>), specific |-> [port |-> "1", ttl |-> "1"]]
        udp == [Variant("udp", [qos |-> <<2>>], [port |-> "2"])
                   EXCEPT !.template = Given("base")]
        quic == [Variant("quic", [tick_rate_hz |-> <<5>>], NoKeys) EXCEPT !.template = Given("base")]
    IN  [File(<<udp, quic>>) EXCEPT
            !.templates = [base |-> base],
            !.overrides = <<[selects |-> {Named("udp"), Named("quic")}, key |-> "ttl", value |-> "8"],
                            [selects |-> {Named("udp")}, key |-> "ttl", value |-> "9"]>>]

\* Two modes of which one is supported, two batches, and --log-dir.
Gated ==
    LET tcp == [Variant("tcp", [threading_modes |-> <<"single", "multi">>, qos |-> <<3, 1>>]
                                   @@ Usual(<<10>>, <<4, 2>>), NoKeys)
                   EXCEPT !.supported_modes = Given({"multi"})]
        both == Variant("both", [threading_modes |-> <<"single", "multi">>, qos |-> <<4>>,
                                 log_dir |-> "./other"] @@ Usual(<<10>>, <<1>>), NoKeys)
    IN  [File(<<tcp, both>>) EXCEPT !.cliDir = Given("/data")]

\* The names of two variants, v at qos 1 and v-qos1, come out alike.
Namesakes ==
    File(<<Variant("v", [qos |-> <<1, 2>>] @@ Usual(<<10>>, <<1>>), NoKeys),
           [Variant("w", [qos |-> <<3>>] @@ Usual(<<10>>, <<1>>), NoKeys)
               EXCEPT !.name = Named("v") \o Part("qos", 1, 0)]>>)

\* Of two variants, each has its own log_dir.
Apart ==
    File(<<Variant("a", [qos |-> <<1>>] @@ Usual(<<10>>, <<1>>), NoKeys),
           Variant("b", [qos |-> <<1>>, log_dir |-> "./elsewhere"] @@ Usual(<<10>>, <<1>>), NoKeys)>>)

\* No log_dir, which [runner] does not make good; keys the child does not take.
OneOf(common) == File(<<Variant("a", common @@ [qos |-> <<1, 2>>], NoKeys)>>)
NoLogDir ==
    [OneOf([k \in DOMAIN Usual(<<1>>, <<1>>) \ {"log_dir"} |-> Usual(<<1>>, <<1>>)[k]])
        EXCEPT !.runnerDir = Given("/data")]
NoLogDirAtAll == [NoLogDir EXCEPT !.runnerDir = Absent]
WithNic == OneOf([nic |-> "eth0"] @@ Usual(<<1>>, <<1>>))
WithMode == OneOf([threading_mode |-> "multi"] @@ Usual(<<1>>, <<1>>))

Refused ==
    {OneOf([qos |-> <<0>>] @@ Usual(<<1>>, <<1>>)),
     OneOf([qos |-> <<>>] @@ Usual(<<1>>, <<1>>)),
     OneOf(Usual(<<0>>, <<1>>)),
     OneOf([workload |-> "scalar", tick_rate_hz |-> <<1>>]),
     OneOf([threading_modes |-> <<"double">>] @@ Usual(<<1>>, <<1>>)),
     File(<<Variant("a", Usual(<<1>>, <<1>>), NoKeys), Variant("a", Usual(<<2>>, <<1>>), NoKeys)>>),
     File(<<[Variant("a", Usual(<<1>>, <<1>>), NoKeys) EXCEPT !.template = Given("base")]>>),
     File(<<[Variant("a", Usual(<<1>>, <<1>>), NoKeys) EXCEPT !.supported_modes = Given({})]>>)}

MCConfigFiles ==
    {Templates, Gated, Namesakes, Apart, NoLogDir, NoLogDirAtAll, WithNic, WithMode} \union Refused
=============================================================================
