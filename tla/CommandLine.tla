---------------------------- MODULE CommandLine ----------------------------
(***************************************************************************)
(* From the command line to a server that serves (cmd/process.go,          *)
(* conf/server_options.go, utils/str.go): parsing the flags, the           *)
(* configuration file, what is validated, and the chain of processes       *)
(* -daemon starts, each with the arguments its parent hands on.            *)
(*                                                                         *)
(* An argument is the sequence of its pieces between "=" signs, so         *)
(* "--port=8000" is <<"-port", "8000">>.  "-port" stands for "--port" too. *)
(***************************************************************************)
EXTENDS Naturals, Sequences, SequencesExt

CONSTANTS
    Arguments,   \* arguments a user may give
    MaxArgs,     \* how many (bound)
    Unknown,     \* pieces that begin with a dash and are no flag of the program
    PortNumber,  \* function: the pieces that are numbers
    Default,     \* conf.Default
    Files,       \* function: the settings each configuration file has values for
    Random       \* what utils.RandomString returns

Options  == {"-auth", "-path", "-config", "-port"}
Switches == {"-debug", "-daemon"}
Flags    == Options \cup Switches

ASSUME CommandLineAssumption ==
    /\ Arguments \subseteq Seq(STRING) \ {<<>>}
    /\ MaxArgs \in Nat
    /\ Unknown \cap Flags = {}
    /\ Default = [x \in DOMAIN Default |-> Default[x]]
    /\ {"port", "path", "password", "debug"} \subseteq DOMAIN Default
    /\ \A n \in DOMAIN Files : DOMAIN Files[n] \subseteq DOMAIN Default
    /\ Default.port \in Nat
    /\ Default.password # <<"">> /\ Default.path # <<"">>
    /\ Random # <<"">>

VARIABLES
    stage,     \* "started", "initialised", "serving" or "exited"
    child,     \* the process was started by another one
    args,      \* os.Args without the command
    settings,  \* conf.Settings
    server     \* authPassword, and the length of the transformer's secret

vars == <<stage, child, args, settings, server>>

NoServer == [auth |-> <<"">>, secret |-> 0]

-----------------------------------------------------------------------------

\* Package flag, of the Go library.

NoValue == <<>>

\* The value an argument at i has for its flag, or takes from the next argument.
ValueAt(a, i) ==
    IF Len(a[i]) > 1 THEN Tail(a[i])
    ELSE IF a[i][1] \in Switches THEN <<"true">>
    ELSE IF i < Len(a) THEN a[i + 1]
    ELSE NoValue

Takes(a, i) == IF Len(a[i]) > 1 \/ a[i][1] \in Switches THEN 1 ELSE 2

Accepted(f, v) ==
    /\ f \in Flags /\ v # NoValue
    /\ f \in Switches => v \in {<<"true">>, <<"false">>}
    /\ f = "-port" => v \in {<<n>> : n \in DOMAIN PortNumber}

\* flag.Parse: it stops at the first argument that is no flag, the last value of
\* a flag counts, and one argument it does not understand is the end.
Parse(a) ==
    LET from[i \in 1..Len(a) + 2] ==
            IF i > Len(a) \/ a[i][1] \notin Flags \cup Unknown
            THEN [ok |-> TRUE, given |-> [f \in {} |-> NoValue]]
            ELSE LET rest == from[i + Takes(a, i)]
                 IN  [ok    |-> rest.ok /\ Accepted(a[i][1], ValueAt(a, i)),
                      given |-> rest.given @@ (a[i][1] :> ValueAt(a, i))]
    IN  from[1]

-----------------------------------------------------------------------------

\* parseFlags: what was given, or the default.
Flag(given, f, default) == IF f \in DOMAIN given THEN given[f] ELSE default

HasCustom(file) == file # <<"">>

CanLoad(file) == \E n \in DOMAIN Files : file = <<n>>

\* Load leaves alone what the file does not mention.
Load(file) ==
    LET read == Files[file[1]]
    IN  [x \in DOMAIN Default |-> IF x \in DOMAIN read THEN read[x] ELSE Default[x]]

Loaded(given) ==
    LET file == Flag(given, "-config", <<"">>)
    IN  IF HasCustom(file) THEN Load(file) ELSE Default

\* The flags a user gave, as settings: none for a flag that has the default value.
Overridden(given, s) ==
    LET auth == Flag(given, "-auth", Default.password)
        path == Flag(given, "-path", Default.path)
        port == IF "-port" \in DOMAIN given THEN PortNumber[given["-port"][1]] ELSE Default.port
    IN  [s EXCEPT !.debug    = @ \/ Flag(given, "-debug", <<"false">>) = <<"true">>,
                  !.password = IF auth # Default.password THEN auth ELSE Random,
                  !.path     = IF path # Default.path THEN path ELSE @,
                  !.port     = IF port # Default.port THEN port ELSE @]

\* Mutant: the file is loaded after the flags.
ConfiguredFileLast(given) ==
    LET file == Flag(given, "-config", <<"">>)
    IN  IF HasCustom(file) THEN Files[file[1]] @@ Overridden(given, Default)
        ELSE Overridden(given, Default)

Configured(given) == Overridden(given, Loaded(given))

ValidatePort(port) == port \in Nat /\ port > 1024 /\ port < 65535

ValidateEncryptor(s) == s.encrypt => s.secret \in {16, 24, 32}

\* Mutant: the loop ends before the validator of the password.
VaildatedFirstTwo(s) == ValidatePort(s.port) /\ s.path # <<"">>

\* PortValidator, PathValidator, AuthValidator, EncryptorValidator.
Vaildated(s) ==
    /\ ValidatePort(s.port)
    /\ s.path # <<"">>
    /\ s.password # <<"">>
    /\ ValidateEncryptor(s)

-----------------------------------------------------------------------------

\* TrimDaemon, for arguments that have lost the command.
TrimDaemon(a) ==
    LET new[i \in 0..Len(a)] ==
            IF i = 0 THEN <<>>
            ELSE IF a[i] = <<"-daemon">> THEN new[i - 1] ELSE Append(new[i - 1], a[i])
    IN  new[Len(a)]

\* Mutant: an argument with several "=" is left whole.
SplitWhole(x) == IF Len(x) = 2 THEN <<<<x[1]>>, <<x[2]>>>> ELSE <<x>>

\* An argument with one "=" becomes two, one with several is dropped.
Split(x) ==
    CASE Len(x) = 1 -> <<x>>
      [] Len(x) = 2 -> <<<<x[1]>>, <<x[2]>>>>
      [] OTHER      -> <<>>

\* The arguments from the one at first on, split.
SplitFrom(first, a) ==
    LET new[i \in 0..Len(a)] ==
            IF i < first THEN <<>> ELSE new[i - 1] \o Split(a[i])
    IN  new[Len(a)]

\* Mutant: the loop starts one later.
SplitArgsLater(a) == SplitFrom(3, a)

\* SplitArgs: its loop starts at the second element, as if the command were there.
SplitArgs(a) == SplitFrom(2, a)

\* Mutant: the child is started with the arguments of its parent.
SameArgs(a) == a

ChildArgs(a) == SplitArgs(TrimDaemon(a))

-----------------------------------------------------------------------------

Init ==
    /\ stage = "started"
    /\ child = FALSE
    /\ args \in BoundedSeq(Arguments, MaxArgs)
    /\ settings = Default
    /\ server = NoServer

Exit == stage' = "exited" /\ UNCHANGED <<child, args, settings, server>>

\* init, with its error exits.
UsageExit == stage = "started" /\ ~ Parse(args).ok /\ Exit

LoadFails ==
    /\ stage = "started"
    /\ LET flags == Parse(args)
           file  == Flag(flags.given, "-config", <<"">>)
       IN  flags.ok /\ HasCustom(file) /\ ~ CanLoad(file)
    /\ Exit

Initialise ==
    /\ stage = "started"
    /\ LET flags == Parse(args)
           file  == Flag(flags.given, "-config", <<"">>)
       IN  /\ flags.ok /\ (HasCustom(file) => CanLoad(file))
           /\ settings' = Configured(flags.given)
    /\ stage' = IF Vaildated(settings') THEN "initialised" ELSE "exited"
    /\ UNCHANGED <<child, args, server>>

Daemon == Flag(Parse(args).given, "-daemon", <<"false">>) = <<"true">>

\* The child begins with the built-in settings; the parent exits.
RunAsDaemon ==
    /\ stage = "initialised" /\ Daemon
    /\ stage' = "started"
    /\ child' = TRUE
    /\ args' = ChildArgs(args)
    /\ settings' = Default
    /\ UNCHANGED server

DaemonFails == stage = "initialised" /\ Daemon /\ Exit

\* The ports New accepts.
PortInRange(port) == 1024 <= port /\ port <= 65536

\* What SetEncryptor leaves the transformer with; its error is not looked at.
SecretSet(s) == IF s.encrypt /\ s.secret >= 16 THEN s.secret ELSE 0

\* An empty password leaves authPassword as it is.
RunServer ==
    /\ stage = "initialised" /\ ~ Daemon
    /\ PortInRange(settings.port)
    /\ settings.gc => settings.second > 0
    /\ server' = [auth   |-> settings.password,
                  secret |-> SecretSet(settings)]
    /\ stage' = "serving"
    /\ UNCHANGED <<child, args, settings>>

\* time.NewTicker panics on an interval that is not positive.
GCPanics ==
    /\ stage = "initialised" /\ ~ Daemon
    /\ settings.gc /\ settings.second = 0
    /\ Exit

StartApp == RunAsDaemon \/ DaemonFails \/ RunServer \/ GCPanics

Next == UsageExit \/ LoadFails \/ Initialise \/ StartApp

Spec == Init /\ [][Next]_vars

\* A process that runs goes on.
FairSpec == Spec /\ WF_vars(Next)

-----------------------------------------------------------------------------

\* Every variable has its type, and what a child is given has no "=" left in it
\* (SplitArgs).
TypeOK ==
    /\ stage \in {"started", "initialised", "serving", "exited"}
    /\ child \in BOOLEAN
    /\ args \in Seq(Seq(STRING) \ {<<>>})
    /\ child => \A i \in DOMAIN args : Len(args[i]) = 1
    /\ DOMAIN settings = DOMAIN Default

\* A server that serves asks for the password of the settings, never for none,
\* encrypts exactly when it is told to and with a key AES takes, and New has not
\* refused the port: what Vaildated lets through, the server can do.
ServesValidated ==
    /\ stage = "initialised" => PortInRange(settings.port)
    /\ stage = "serving" =>
          /\ server.auth = settings.password /\ server.auth # <<"">>
          /\ server.secret = IF settings.encrypt THEN settings.secret ELSE 0
          /\ server.secret \in {0, 16, 24, 32}

\* Where each setting comes from (init).  A flag with another value than the
\* built-in one wins over the configuration file, whatever is in it; a flag with
\* the built-in value is as good as not given.  The file wins over the built-in
\* settings, but for two: the password of the file is never taken, without -auth
\* there is a random one, and -debug can be switched on, not off.
CommandLineWins ==
    stage \in {"initialised", "serving"} =>
        LET given == Parse(args).given
            file  == Flag(given, "-config", <<"">>)
            asked == [password |-> Flag(given, "-auth", Default.password),
                      path     |-> Flag(given, "-path", Default.path),
                      port     |-> IF "-port" \in DOMAIN given
                                   THEN PortNumber[given["-port"][1]] ELSE Default.port]
            own   == {x \in DOMAIN asked : asked[x] # Default[x]}
            below == [x \in DOMAIN Default |->
                        IF HasCustom(file) /\ x \in DOMAIN Files[file[1]]
                        THEN Files[file[1]][x] ELSE Default[x]]
        IN  /\ \A x \in own : settings[x] = asked[x]
            /\ \A x \in DOMAIN Default \ (own \cup {"password", "debug"}) :
                  settings[x] = below[x]
            /\ "password" \notin own => settings.password = Random
            /\ settings.debug = (below.debug \/ Flag(given, "-debug", <<"false">>) = <<"true">>)

\* Every switch alone, every option with its value behind one "=".
WithEquals(a) ==
    \A i \in DOMAIN a :
        \/ Len(a[i]) = 1 /\ a[i][1] \in Switches
        \/ Len(a[i]) = 2 /\ a[i][1] \in Options

\* The child reads from its arguments, split at "=", what its parent read from
\* them, but for -daemon and for the first one (TrimDaemon, SplitArgs and the
\* parser of flags fit together).
DaemonKeepsTheRest ==
    [][stage = "initialised" /\ stage' = "started" /\ WithEquals(args) /\ TrimDaemon(args) # <<>> =>
          Parse(args') = Parse(Tail(TrimDaemon(args)))]_vars

\* A child that starts one more hands on fewer arguments than it was given, so a
\* command line gives rise to a bounded number of processes, although "-daemon" may
\* come up again as the value of another flag (runAsDaemon).
ChainShrinks ==
    [][child /\ stage = "initialised" /\ stage' = "started" =>
          Len(args') < Len(args)]_vars

\* The chain of processes ends, with a server or an error, whatever the arguments:
\* -daemon is not handed on for ever.
DaemonChainEnds == <>(stage \in {"serving", "exited"})

=============================================================================
