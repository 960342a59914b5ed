------------------------- MODULE CommandLineProofs -------------------------
(***************************************************************************)
(* What a server is configured with, and what the child of a daemon is     *)
(* given, for every command line and every set of configuration files.     *)
(*                                                                         *)
(* The settings do not depend on how flags are parsed: whatever Parse      *)
(* returns is overlaid and validated in the same way.  What SplitArgs and  *)
(* Parse compute is shown by induction over the arguments.  Induction is   *)
(* stated here with sets of numbers in the place of predicates.            *)
(***************************************************************************)
EXTENDS CommandLine, SequenceTheorems, WellFoundedInduction, TLAPS

\* From init to the server the settings are those of the arguments, validated,
\* and the server has been given them.
Settled ==
    /\ stage \in {"initialised", "serving"} =>
          LET given == Parse(args).given
              file  == Flag(given, "-config", <<"">>)
          IN  /\ HasCustom(file) => CanLoad(file)
              /\ settings = Configured(given)
              /\ Vaildated(settings)
    /\ stage = "serving" =>
          server = [auth |-> settings.password, secret |-> SecretSet(settings)]

LEMMA InitSettled == Init => Settled
BY DEF Init, Settled

LEMMA NextSettled == Settled /\ [Next]_vars => Settled'
<1> SUFFICES ASSUME Settled, [Next]_vars
             PROVE  Settled'
  OBVIOUS
<1>1. CASE UsageExit \/ LoadFails
  BY <1>1 DEF UsageExit, LoadFails, Exit, Settled
<1>2. CASE Initialise
  <2>1. /\ settings' = Configured(Parse(args).given)
        /\ stage' = IF Vaildated(settings') THEN "initialised" ELSE "exited"
        /\ args' = args
        /\ LET file == Flag(Parse(args).given, "-config", <<"">>)
           IN  HasCustom(file) => CanLoad(file)
    BY <1>2 DEF Initialise
  <2>2. Vaildated(settings)' <=> Vaildated(settings')
    BY DEF Vaildated
  <2>3. (Configured(Parse(args).given))' = Configured(Parse(args).given)
    BY <2>1
  <2> QED BY <2>1, <2>2, <2>3 DEF Settled
<1>3. CASE RunAsDaemon
  BY <1>3 DEF RunAsDaemon, Settled
<1>4. CASE DaemonFails \/ GCPanics
  BY <1>4 DEF DaemonFails, GCPanics, Exit, Settled
<1>5. CASE RunServer
  <2>1. /\ stage = "initialised" /\ stage' = "serving"
        /\ args' = args /\ settings' = settings
        /\ server' = [auth |-> settings.password, secret |-> SecretSet(settings)]
    BY <1>5, Zenon DEF RunServer
  <2> QED BY <2>1 DEF Settled
<1>6. CASE UNCHANGED vars
  BY <1>6 DEF vars, Settled
<1> QED BY <1>1, <1>2, <1>3, <1>4, <1>5, <1>6 DEF Next, StartApp

\* Whatever the command line and the file say, a server that serves asks for
\* the password of the settings, never for none, encrypts exactly when it is
\* told to with a key AES takes, and New has accepted the port.
THEOREM ValidatedIsServed == Spec => []ServesValidated
<1>1. Settled => ServesValidated
  <2> SUFFICES ASSUME Settled
               PROVE  ServesValidated
    OBVIOUS
  <2>1. ASSUME Vaildated(settings)
        PROVE  /\ PortInRange(settings.port) /\ settings.password # <<"">>
               /\ ValidateEncryptor(settings)
    <3>1. /\ ValidatePort(settings.port) /\ settings.password # <<"">>
          /\ ValidateEncryptor(settings)
      BY <2>1, Zenon DEF Vaildated
    <3>2. ASSUME NEW port, ValidatePort(port)
          PROVE  PortInRange(port)
      BY <3>2 DEF ValidatePort, PortInRange
    <3> QED BY <3>1, <3>2, Zenon
  <2>2. ASSUME stage = "initialised"
        PROVE  PortInRange(settings.port)
    BY <2>1, <2>2 DEF Settled
  <2>3. ASSUME stage = "serving"
        PROVE  /\ server.auth = settings.password /\ server.auth # <<"">>
               /\ server.secret = IF settings.encrypt THEN settings.secret ELSE 0
               /\ server.secret \in {0, 16, 24, 32}
    <3>1. /\ Vaildated(settings)
          /\ server = [auth |-> settings.password, secret |-> SecretSet(settings)]
      BY <2>3 DEF Settled
    <3>2. server.auth = settings.password /\ server.secret = SecretSet(settings)
      BY <3>1
    <3>3. CASE settings.encrypt
      <4>1. settings.secret \in {16, 24, 32}
        BY <2>1, <3>1, <3>3, Zenon DEF ValidateEncryptor
      <4>2. settings.secret >= 16
        BY <4>1
      <4>3. SecretSet(settings) = settings.secret
        BY <3>3, <4>2, Zenon DEF SecretSet
      <4>4. server.secret = IF settings.encrypt THEN settings.secret ELSE 0
        BY <3>2, <3>3, <4>3, Zenon
      <4>5. server.secret \in {0, 16, 24, 32}
        BY <3>2, <4>1, <4>3
      <4> QED BY <2>1, <3>1, <3>2, <4>4, <4>5, Zenon
    <3>4. CASE ~ settings.encrypt
      <4>1. SecretSet(settings) = 0
        BY <3>4, Zenon DEF SecretSet
      <4>2. server.secret = IF settings.encrypt THEN settings.secret ELSE 0
        BY <3>2, <3>4, <4>1, Zenon
      <4>3. server.secret \in {0, 16, 24, 32}
        BY <3>2, <4>1
      <4> QED BY <2>1, <3>1, <3>2, <4>2, <4>3, Zenon
    <3> QED BY <3>3, <3>4
  <2> QED BY <2>2, <2>3, Zenon DEF ServesValidated
<1> QED BY <1>1, InitSettled, NextSettled, PTL DEF Spec

-----------------------------------------------------------------------------

\* The flags a user gave, and the values they stand for.
Asked(given) ==
    [password |-> Flag(given, "-auth", Default.password),
     path     |-> Flag(given, "-path", Default.path),
     port     |-> IF "-port" \in DOMAIN given
                  THEN PortNumber[given["-port"][1]] ELSE Default.port]

LEMMA LoadedType ==
    ASSUME NEW given
    PROVE  /\ Loaded(given) = [x \in DOMAIN Loaded(given) |-> Loaded(given)[x]]
           /\ DOMAIN Loaded(given) = DOMAIN Default
           /\ {"port", "path", "password", "debug"} \subseteq DOMAIN Loaded(given)
<1> DEFINE file == Flag(given, "-config", <<"">>)
           load == Load(file)
           read == Files[file[1]]
<1>1. Loaded(given) = IF HasCustom(file) THEN load ELSE Default
  BY DEF Loaded
<1>2. load = [x \in DOMAIN Default |-> IF x \in DOMAIN read THEN read[x] ELSE Default[x]]
  BY DEF Load
<1>3. /\ Default = [x \in DOMAIN Default |-> Default[x]]
      /\ {"port", "path", "password", "debug"} \subseteq DOMAIN Default
  BY CommandLineAssumption, Zenon
<1> HIDE DEF file, load, read
<1>4. load = [x \in DOMAIN load |-> load[x]] /\ DOMAIN load = DOMAIN Default
  BY <1>2
<1> QED BY <1>1, <1>3, <1>4

\* o is s but for the values in a that are not the default ones.
Overlaid(o, a, s) ==
    /\ \A x \in {"password", "path", "port"} : a[x] # Default[x] => o[x] = a[x]
    /\ \A x \in {"path", "port"} : a[x] = Default[x] => o[x] = s[x]
    /\ a["password"] = Default["password"] => o["password"] = Random
    /\ \A x \in DOMAIN s \ {"password", "path", "port", "debug"} : o[x] = s[x]

\* Overlaying the flags sets what they ask for and leaves the rest alone.
LEMMA OverriddenIs ==
    ASSUME NEW given, NEW s, s = [x \in DOMAIN s |-> s[x]],
           {"port", "path", "password", "debug"} \subseteq DOMAIN s
    PROVE  /\ Overlaid(Overridden(given, s), Asked(given), s)
           /\ Overridden(given, s)["debug"] =
                 (s["debug"] \/ Flag(given, "-debug", <<"false">>) = <<"true">>)
<1> DEFINE o    == Overridden(given, s)
           a    == Asked(given)
           auth == Flag(given, "-auth", Default.password)
           path == Flag(given, "-path", Default.path)
           port == IF "-port" \in DOMAIN given
                   THEN PortNumber[given["-port"][1]] ELSE Default.port
           d    == s["debug"] \/ Flag(given, "-debug", <<"false">>) = <<"true">>
<1>1. o = [s EXCEPT !.debug    = d,
                    !.password = IF auth # Default.password THEN auth ELSE Random,
                    !.path     = IF path # Default.path THEN path ELSE @,
                    !.port     = IF port # Default.port THEN port ELSE @]
  BY Zenon DEF Overridden
<1>2. a = [password |-> auth, path |-> path, port |-> port]
  BY Zenon DEF Asked
<1> HIDE DEF o, a, auth, path, port, d
<1>3. /\ a["password"] = auth /\ a["path"] = path /\ a["port"] = port
  BY <1>2
<1>4. /\ o["password"] = IF auth # Default.password THEN auth ELSE Random
      /\ o["path"] = IF path # Default.path THEN path ELSE s["path"]
      /\ o["port"] = IF port # Default.port THEN port ELSE s["port"]
      /\ o["debug"] = d
      /\ \A x \in DOMAIN s \ {"password", "path", "port", "debug"} : o[x] = s[x]
  BY <1>1
<1>5. /\ \A x \in {"password", "path", "port"} : a[x] # Default[x] => o[x] = a[x]
      /\ \A x \in {"path", "port"} : a[x] = Default[x] => o[x] = s[x]
      /\ a["password"] = Default["password"] => o["password"] = Random
  BY <1>3, <1>4
<1>6. Overlaid(o, a, s)
  BY <1>4, <1>5 DEF Overlaid
<1> QED BY <1>4, <1>6, Zenon DEF o, a, d

\* For every command line and every file a flag with another value than the
\* built-in one wins, then the file, then the built-in settings; only the password
\* is the flag's or a random one, never the file's, and -debug is never off when
\* the file has it on.
THEOREM FlagsWin == Spec => []CommandLineWins
<1>1. Settled => CommandLineWins
  <2> SUFFICES ASSUME Settled, stage \in {"initialised", "serving"}
               PROVE  CommandLineWins
    BY DEF CommandLineWins
  <2> DEFINE given == Parse(args).given
             file  == Flag(given, "-config", <<"">>)
             asked == Asked(given)
             own   == {x \in DOMAIN asked : asked[x] # Default[x]}
             s     == Loaded(given)
             below == [x \in DOMAIN Default |->
                         IF HasCustom(file) /\ x \in DOMAIN Files[file[1]]
                         THEN Files[file[1]][x] ELSE Default[x]]
  <2>1. settings = Overridden(given, s) /\ (HasCustom(file) => CanLoad(file))
    BY DEF Settled, Configured
  <2> HIDE DEF given
  <2>2. /\ s = [x \in DOMAIN s |-> s[x]]
        /\ {"port", "path", "password", "debug"} \subseteq DOMAIN s
    BY LoadedType
  <2>3. /\ Overlaid(settings, asked, s)
        /\ settings["debug"] = (s["debug"] \/ Flag(given, "-debug", <<"false">>) = <<"true">>)
    <3>1. /\ Overlaid(Overridden(given, s), Asked(given), s)
          /\ Overridden(given, s)["debug"] =
                (s["debug"] \/ Flag(given, "-debug", <<"false">>) = <<"true">>)
      <4> HIDE DEF s
      <4> QED BY <2>2, OverriddenIs
    <3> QED BY <2>1, <3>1, Zenon
  <2>4. DOMAIN asked = {"password", "path", "port"}
    BY DEF Asked
  <2>5. s = below
    <3>1. CASE HasCustom(file)
      BY <3>1 DEF Loaded, Load
    <3>2. CASE ~ HasCustom(file)
      <4>1. Default = [x \in DOMAIN Default |-> Default[x]]
        BY CommandLineAssumption, Zenon
      <4>2. s = Default
        BY <3>2, Zenon DEF Loaded
      <4>3. below = [x \in DOMAIN Default |-> Default[x]]
        BY <3>2
      <4> QED BY <4>1, <4>2, <4>3, Zenon
    <3> QED BY <3>1, <3>2
  <2>6. DOMAIN below = DOMAIN Default
    OBVIOUS
  <2> HIDE DEF s, below, asked
  <2>7. \A x \in own : settings[x] = asked[x]
    BY <2>3, <2>4, Zenon DEF Overlaid
  <2>8. ASSUME NEW x \in DOMAIN Default, x \notin own \cup {"password", "debug"}
        PROVE  settings[x] = below[x]
    <3>1. x \in DOMAIN s
      BY <2>5, <2>6
    <3>2. x \in {"path", "port"} => asked[x] = Default[x]
      BY <2>4, <2>8
    <3>3. x \in DOMAIN s \ {"password", "path", "port", "debug"} \/ x \in {"path", "port"}
      BY <2>8, <3>1
    <3> QED BY <2>3, <2>5, <3>2, <3>3, Zenon DEF Overlaid
  <2>9. ASSUME "password" \notin own
        PROVE  settings["password"] = Random
    <3>1. asked["password"] = Default["password"]
      BY <2>4, <2>9
    <3> QED BY <2>3, <3>1, Zenon DEF Overlaid
  <2>10. settings["debug"] = (below["debug"] \/ Flag(given, "-debug", <<"false">>) = <<"true">>)
    BY <2>3, <2>5, Zenon
  <2> QED BY <2>7, <2>8, <2>9, <2>10
          DEF CommandLineWins, given, asked, Asked, below
<1> QED BY <1>1, InitSettled, NextSettled, PTL DEF Spec

-----------------------------------------------------------------------------

\* A set of natural numbers that is not empty has a least element.
LEMMA LeastNat ==
    ASSUME NEW T, T \subseteq Nat, T # {}
    PROVE  \E m \in T : \A k \in T : m <= k
<1> DEFINE R == {ss \in Nat \X Nat : ss[1] < ss[2]}
<1>1. IsWellFoundedOn(R, Nat)
  BY NatLessThanWellFounded DEF OpToRel
<1> HIDE DEF R
<1>2. PICK m \in T : \A k \in T : ~ (<<k, m>> \in R)
  BY <1>1, WFMin
<1>3. ASSUME NEW k \in T, k < m
      PROVE  FALSE
  <2>1. <<k, m>> \in R
    BY <1>3 DEF R
  <2> QED BY <1>2, <2>1
<1> QED BY <1>3

\* Induction over the numbers up to n: what is to be shown is that a number is
\* in S, the set of those it holds of.
LEMMA NatSet ==
    ASSUME NEW n \in Nat, NEW S, 0 \in S, \A k \in 0..n - 1 : k \in S => k + 1 \in S
    PROVE  0..n \subseteq S
<1> SUFFICES ASSUME (0..n) \ S # {} PROVE FALSE
  OBVIOUS
<1>1. PICK m \in (0..n) \ S : \A k \in (0..n) \ S : m <= k
  <2> DEFINE T == (0..n) \ S
  <2>1. T \subseteq Nat /\ T # {}
    OBVIOUS
  <2> HIDE DEF T
  <2>2. \E m \in T : \A k \in T : m <= k
    BY <2>1, LeastNat
  <2> QED BY <2>2 DEF T
<1>2. m # 0 /\ m - 1 \in 0..n - 1 /\ m - 1 \in S
  BY <1>1
<1> QED BY <1>1, <1>2

\* A function on 0..n that starts with x0 and goes on as step says.
Recurs(f, n, x0, step) ==
    f[0] = x0 /\ \A i \in 1..n : f[i] = step[<<i, f[i - 1]>>]

\* There is such a function: a loop has a result, whatever its step is.
LEMMA Recursion ==
    ASSUME NEW X, NEW x0 \in X, NEW n \in Nat, NEW step \in [(1..n) \X X -> X]
    PROVE  \E f \in [0..n -> X] : Recurs(f, n, x0, step)
<1> DEFINE S == {k \in 0..n : \E f \in [0..k -> X] : Recurs(f, k, x0, step)}
<1>1. 0 \in S
  <2> DEFINE f == [i \in 0..0 |-> x0]
  <2>1. f \in [0..0 -> X] /\ f[0] = x0 /\ 1..0 = {}
    OBVIOUS
  <2>2. Recurs(f, 0, x0, step)
    BY <2>1 DEF Recurs
  <2> QED BY <2>1, <2>2
<1>2. ASSUME NEW k \in 0..n - 1, k \in S
      PROVE  k + 1 \in S
  <2>1. PICK f \in [0..k -> X] : Recurs(f, k, x0, step)
    BY <1>2
  <2> DEFINE x == step[<<k + 1, f[k]>>]
             g == [i \in 0..k + 1 |-> IF i = k + 1 THEN x ELSE f[i]]
  <2>2. k + 1 \in 1..n /\ f[k] \in X /\ x \in X
    BY <2>1
  <2> HIDE DEF x
  <2>3. g \in [0..k + 1 -> X]
    BY <2>2
  <2>4. g[k + 1] = x /\ \A i \in 0..k : g[i] = f[i]
    OBVIOUS
  <2> HIDE DEF g
  <2>5. Recurs(g, k + 1, x0, step)
    <3>1. g[0] = x0
      BY <2>1, <2>4 DEF Recurs
    <3>2. ASSUME NEW i \in 1..k + 1
          PROVE  g[i] = step[<<i, g[i - 1]>>]
      <4>1. CASE i = k + 1
        <5>1. g[i - 1] = f[k]
          BY <2>4, <4>1
        <5> QED BY <2>4, <4>1, <5>1, Zenon DEF x
      <4>2. CASE i # k + 1
        <5>1. i \in 1..k /\ g[i] = f[i] /\ g[i - 1] = f[i - 1]
          BY <2>4, <4>2
        <5> QED BY <2>1, <5>1, Zenon DEF Recurs
      <4> QED BY <4>1, <4>2
    <3> QED BY <3>1, <3>2, Zenon DEF Recurs
  <2> QED BY <2>2, <2>3, <2>5
<1>3. 0..n \subseteq S
  <2> HIDE DEF S
  <2> QED BY <1>1, <1>2, NatSet
<1> QED BY <1>3

-----------------------------------------------------------------------------

\* TrimDaemon keeps arguments of a, and not -daemon, and adds nothing.
LEMMA TrimDaemonType ==
    ASSUME NEW E, NEW a \in Seq(E)
    PROVE  /\ TrimDaemon(a) \in Seq(E \ {<<"-daemon">>})
           /\ Len(TrimDaemon(a)) <= Len(a)
<1> DEFINE n == Len(a)
           X == Seq(E \ {<<"-daemon">>})
           Keep(i, s) == IF a[i] = <<"-daemon">> THEN s ELSE Append(s, a[i])
           step == [p \in (1..n) \X X |-> Keep(p[1], p[2])]
           Body(g) == [i \in 0..n |-> IF i = 0 THEN <<>>
            ELSE IF a[i] = <<"-daemon">> THEN g[i - 1] ELSE Append(g[i - 1], a[i])]
           new == CHOOSE g : g = Body(g)
<1>1. n \in Nat /\ <<>> \in X
  OBVIOUS
<1>2. \A i \in 1..n, s \in X : Keep(i, s) \in X /\ Len(Keep(i, s)) <= Len(s) + 1
  OBVIOUS
<1>3. TrimDaemon(a) = new[n]
  BY DEF TrimDaemon
<1>4. \A g : Body(g) = [i \in 0..n |-> IF i = 0 THEN <<>> ELSE Keep(i, g[i - 1])]
  OBVIOUS
<1> HIDE DEF n, X, Keep, Body
<1>5. \E f : f = Body(f)
  <2>1. step \in [(1..n) \X X -> X]
    BY <1>2
  <2>2. PICK f \in [0..n -> X] : Recurs(f, n, <<>>, step)
    <3> HIDE DEF step
    <3> QED BY <1>1, <2>1, Recursion
  <2>3. \A i \in 1..n : f[i] = Keep(i, f[i - 1])
    <3> SUFFICES ASSUME NEW i \in 1..n
                 PROVE  f[i] = Keep(i, f[i - 1])
      OBVIOUS
    <3>1. i - 1 \in 0..n /\ f[i - 1] \in X
      BY <1>1
    <3>2. f[i] = step[<<i, f[i - 1]>>]
      BY <2>2, Zenon DEF Recurs
    <3> QED BY <3>1, <3>2
  <2>4. f[0] = <<>>
    BY <2>2 DEF Recurs
  <2>5. f = [i \in 0..n |-> IF i = 0 THEN <<>> ELSE Keep(i, f[i - 1])]
    BY <2>3, <2>4, <1>1
  <2> QED BY <1>4, <2>5
<1>6. new = Body(new)
  BY <1>5
<1> HIDE DEF new
<1>7. new[0] = <<>> /\ \A i \in 1..n : new[i] = Keep(i, new[i - 1])
  BY <1>1, <1>4, <1>6
<1>8. 0..n \subseteq {k \in 0..n : new[k] \in X /\ Len(new[k]) <= k}
  <2> DEFINE S == {k \in 0..n : new[k] \in X /\ Len(new[k]) <= k}
  <2>1. 0 \in S
    BY <1>1, <1>7
  <2>2. ASSUME NEW k \in 0..n - 1, k \in S
        PROVE  k + 1 \in S
    <3>1. k + 1 \in 1..n /\ new[k + 1] = Keep(k + 1, new[k])
      BY <1>1, <1>7
    <3>2. new[k + 1] \in X /\ Len(new[k + 1]) <= Len(new[k]) + 1
      BY <1>2, <2>2, <3>1
    <3>3. Len(new[k]) \in Nat /\ Len(new[k + 1]) \in Nat /\ Len(new[k]) <= k
      BY <2>2, <3>2 DEF X
    <3> QED BY <1>1, <3>1, <3>2, <3>3
  <2> HIDE DEF S
  <2>3. 0..n \subseteq S
    BY <1>1, <2>1, <2>2, NatSet
  <2> QED BY <2>3 DEF S
<1>9. new[n] \in X /\ Len(new[n]) <= n
  BY <1>1, <1>8
<1> QED BY <1>3, <1>9 DEF X, n

\* The arguments without "=".
Whole == {x \in Seq(STRING) : Len(x) = 1}

LEMMA OneIsSeq ==
    ASSUME NEW D, NEW w \in D
    PROVE  <<w>> \in Seq(D) /\ Len(<<w>>) = 1
OBVIOUS

LEMMA SplitType ==
    ASSUME NEW x \in Seq(STRING) \ {<<>>}
    PROVE  Split(x) \in Seq(Whole)
<1>1. CASE Len(x) = 1
  <2>1. Split(x) = <<x>> /\ x \in Whole
    BY <1>1 DEF Split, Whole
  <2> QED BY <2>1
<1>2. CASE Len(x) = 2
  <2>1. Split(x) = <<<<x[1]>>, <<x[2]>>>> /\ x[1] \in STRING /\ x[2] \in STRING
    BY <1>2 DEF Split
  <2>2. ASSUME NEW w \in STRING
        PROVE  <<w>> \in Whole
    <3>1. <<w>> \in Seq(STRING) /\ Len(<<w>>) = 1
      BY <2>2, OneIsSeq
    <3> QED BY <3>1, Zenon DEF Whole
  <2>3. <<x[1]>> \in Whole /\ <<x[2]>> \in Whole
    BY <2>1, <2>2
  <2> QED BY <2>1, <2>3
<1>3. CASE Len(x) # 1 /\ Len(x) # 2
  BY <1>3 DEF Split
<1> QED BY <1>1, <1>2, <1>3

\* What the loop of SplitArgs has appended after each argument.
Appends(new, first, a) ==
    /\ \A i \in 0..Len(a) : new[i] \in Seq(Whole)
    /\ new[0] = <<>>
    /\ \A i \in 1..Len(a) :
          new[i] = IF i < first THEN <<>> ELSE new[i - 1] \o Split(a[i])

\* The recursive function SplitFrom chooses is the one its equation describes.
LEMMA SplitFromIs ==
    ASSUME NEW a \in Seq(Seq(STRING) \ {<<>>}), NEW first \in Nat \ {0}
    PROVE  \E new : SplitFrom(first, a) = new[Len(a)] /\ Appends(new, first, a)
<1> DEFINE n == Len(a)
           X == Seq(Whole)
           Add(i, s) == IF i < first THEN <<>> ELSE s \o Split(a[i])
           step == [p \in (1..n) \X X |-> Add(p[1], p[2])]
           Body(g) == [i \in 0..n |-> IF i < first THEN <<>> ELSE g[i - 1] \o Split(a[i])]
           new == CHOOSE g : g = Body(g)
<1>1. n \in Nat /\ <<>> \in X
  OBVIOUS
<1>2. \A i \in 1..n, s \in X : Add(i, s) \in X
  <2> SUFFICES ASSUME NEW i \in 1..n, NEW s \in X
               PROVE  Add(i, s) \in X
    OBVIOUS
  <2>1. Split(a[i]) \in X
    BY SplitType
  <2> QED BY <2>1
<1>3. SplitFrom(first, a) = new[n]
  BY DEF SplitFrom
<1>4. \A g : Body(g) = [i \in 0..n |-> IF i = 0 THEN <<>> ELSE Add(i, g[i - 1])]
  OBVIOUS
<1>5. \A i, s : Add(i, s) = IF i < first THEN <<>> ELSE s \o Split(a[i])
  OBVIOUS
<1> HIDE DEF n, X, Add, Body
<1>6. \E f : f = Body(f)
  <2>1. step \in [(1..n) \X X -> X]
    BY <1>2
  <2>2. PICK f \in [0..n -> X] : Recurs(f, n, <<>>, step)
    <3> HIDE DEF step
    <3> QED BY <1>1, <2>1, Recursion
  <2>3. \A i \in 1..n : f[i] = Add(i, f[i - 1])
    <3> SUFFICES ASSUME NEW i \in 1..n
                 PROVE  f[i] = Add(i, f[i - 1])
      OBVIOUS
    <3>1. i - 1 \in 0..n /\ f[i - 1] \in X
      BY <1>1
    <3>2. f[i] = step[<<i, f[i - 1]>>]
      BY <2>2, Zenon DEF Recurs
    <3> QED BY <3>1, <3>2
  <2>4. f[0] = <<>>
    BY <2>2 DEF Recurs
  <2>5. f = [i \in 0..n |-> IF i = 0 THEN <<>> ELSE Add(i, f[i - 1])]
    BY <2>3, <2>4, <1>1
  <2> QED BY <1>4, <2>5
<1>7. new = Body(new)
  BY <1>6
<1> HIDE DEF new
<1>8. new[0] = <<>> /\ \A i \in 1..n : new[i] = Add(i, new[i - 1])
  BY <1>1, <1>4, <1>7
<1>9. 0..n \subseteq {k \in 0..n : new[k] \in X}
  <2> DEFINE S == {k \in 0..n : new[k] \in X}
  <2>1. 0 \in S
    BY <1>1, <1>8
  <2>2. ASSUME NEW k \in 0..n - 1, k \in S
        PROVE  k + 1 \in S
    BY <1>1, <1>2, <1>8, <2>2
  <2> HIDE DEF S
  <2>3. 0..n \subseteq S
    BY <1>1, <2>1, <2>2, NatSet
  <2> QED BY <2>3 DEF S
<1>10. Appends(new, first, a)
  BY <1>5, <1>8, <1>9, Zenon DEF Appends, n, X
<1> QED BY <1>3, <1>10, Zenon DEF n


LEMMA ConfiguredType ==
    ASSUME NEW given
    PROVE  DOMAIN Configured(given) = DOMAIN Default
<1>1. ASSUME NEW s
      PROVE  DOMAIN Overridden(given, s) = DOMAIN s
  BY DEF Overridden
<1> QED BY <1>1, LoadedType, Zenon DEF Configured

LEMMA BoundedIsSeq ==
    ASSUME NEW D, NEW b \in Nat, NEW m \in 0..b, NEW a \in [1..m -> D]
    PROVE  a \in Seq(D)
OBVIOUS

LEMMA SeqSubset ==
    ASSUME NEW D, NEW E, D \subseteq E, NEW a \in Seq(D)
    PROVE  a \in Seq(E)
OBVIOUS

\* Every variable has its type in every reachable state, and what a child is
\* given has no "=" left in it: whatever the arguments, SplitArgs splits or drops
\* each one that has.
THEOREM TypeCorrect == Spec => []TypeOK
<1>1. Init => TypeOK
  <2> SUFFICES ASSUME Init
               PROVE  TypeOK
    OBVIOUS
  <2>1. args \in Seq(Arguments)
    <3>1. args \in UNION {[1..m -> Arguments] : m \in 0..MaxArgs}
      BY DEF Init, BoundedSeq, SeqOf
    <3>2. PICK m \in 0..MaxArgs : args \in [1..m -> Arguments]
      BY <3>1, Zenon
    <3>3. MaxArgs \in Nat
      BY CommandLineAssumption, Zenon
    <3> QED BY <3>2, <3>3, BoundedIsSeq
  <2>2. args \in Seq(Seq(STRING) \ {<<>>})
    <3>1. Arguments \subseteq Seq(STRING) \ {<<>>}
      BY CommandLineAssumption, Zenon
    <3> QED BY <2>1, <3>1, SeqSubset, Zenon
  <2> QED BY <2>2 DEF Init, TypeOK
<1>2. TypeOK /\ [Next]_vars => TypeOK'
  <2> SUFFICES ASSUME TypeOK, [Next]_vars
               PROVE  TypeOK'
    OBVIOUS
  <2>1. CASE UsageExit \/ LoadFails \/ DaemonFails \/ GCPanics
    <3>1. Exit
      BY <2>1, Zenon DEF UsageExit, LoadFails, DaemonFails, GCPanics
    <3>2. stage' = "exited" /\ args' = args /\ child' = child /\ settings' = settings
      BY <3>1, Zenon DEF Exit
    <3> QED BY <3>2, Zenon DEF TypeOK
  <2>2. CASE Initialise
    <3>1. /\ settings' = Configured(Parse(args).given)
          /\ stage' \in {"initialised", "exited"}
          /\ UNCHANGED <<child, args>>
      BY <2>2 DEF Initialise
    <3>2. DOMAIN settings' = DOMAIN Default
      BY <3>1, ConfiguredType
    <3> QED BY <3>1, <3>2 DEF TypeOK
  <2>3. CASE RunAsDaemon
    <3>1. args' \in Seq(Whole)
      <4> DEFINE E == Seq(STRING) \ {<<>>}
                 a == TrimDaemon(args)
      <4>1. a \in Seq(E \ {<<"-daemon">>})
        BY TrimDaemonType DEF TypeOK
      <4>2. a \in Seq(E) /\ Len(a) \in Nat
        BY <4>1
      <4>3. args' = SplitFrom(2, a)
        BY <2>3 DEF RunAsDaemon, ChildArgs, SplitArgs
      <4> HIDE DEF a
      <4>4. PICK new : SplitFrom(2, a) = new[Len(a)] /\ Appends(new, 2, a)
        BY <4>2, SplitFromIs
      <4> QED BY <4>2, <4>3, <4>4 DEF Appends
    <3>2. \A x \in Whole : x \in Seq(STRING) \ {<<>>} /\ Len(x) = 1
      BY DEF Whole
    <3>3. /\ args' \in Seq(Seq(STRING) \ {<<>>})
          /\ \A i \in DOMAIN args' : Len(args'[i]) = 1
      BY <3>1, <3>2
    <3>4. stage' = "started" /\ child' = TRUE /\ settings' = Default
      BY <2>3 DEF RunAsDaemon
    <3> QED BY <3>3, <3>4 DEF TypeOK
  <2>4. CASE RunServer
    BY <2>4 DEF RunServer, TypeOK
  <2>5. CASE UNCHANGED vars
    BY <2>5 DEF vars, TypeOK
  <2> QED BY <2>1, <2>2, <2>3, <2>4, <2>5 DEF Next, StartApp
<1> QED BY <1>1, <1>2, PTL DEF Spec

-----------------------------------------------------------------------------

\* What flag.Parse has understood when it stops, and with one flag before.
End == [ok |-> TRUE, given |-> [f \in {} |-> NoValue]]

With(f, v, rest) == [ok    |-> rest.ok /\ Accepted(f, v),
                     given |-> rest.given @@ (f :> v)]

Stops(a, i) == i > Len(a) \/ a[i][1] \notin Flags \cup Unknown

\* from[i] is what flag.Parse understands from the argument at i on.
Reads(from, a) ==
    \A i \in 1..Len(a) + 2 :
        from[i] = IF Stops(a, i) THEN End
                  ELSE With(a[i][1], ValueAt(a, i), from[i + Takes(a, i)])

\* So it is with the one Parse chooses, whose values follow from later ones.
LEMMA ParseIs ==
    ASSUME NEW D, NEW a \in Seq(D)
    PROVE  \E from : Parse(a) = from[1] /\ Reads(from, a)
<1> DEFINE n == Len(a)
           At(i, g) == IF Stops(a, i) THEN End
                       ELSE With(a[i][1], ValueAt(a, i), g[i + Takes(a, i)])
           Body(g) == [i \in 1..n + 2 |->
            IF i > n \/ a[i][1] \notin Flags \cup Unknown
            THEN [ok |-> TRUE, given |-> [f \in {} |-> NoValue]]
            ELSE LET rest == g[i + Takes(a, i)]
                 IN  [ok    |-> rest.ok /\ Accepted(a[i][1], ValueAt(a, i)),
                      given |-> rest.given @@ (a[i][1] :> ValueAt(a, i))]]
           from == CHOOSE g : g = Body(g)
<1>1. Parse(a) = from[1]
  BY DEF Parse
<1>2. \A g : Body(g) = [i \in 1..n + 2 |-> At(i, g)]
  BY Zenon DEF End, With, Stops
<1>3. n \in Nat
  OBVIOUS
<1>4. ASSUME NEW i \in 1..n + 2, NEW f, NEW g,
             \A k \in i + 1..n + 2 : f[k] = g[k]
      PROVE  At(i, f) = At(i, g)
  <2>1. ASSUME ~ Stops(a, i)
        PROVE  i + Takes(a, i) \in i + 1..n + 2
    BY <1>3, <2>1 DEF Stops, Takes
  <2>2. ~ Stops(a, i) => f[i + Takes(a, i)] = g[i + Takes(a, i)]
    BY <1>4, <2>1, Zenon
  <2> QED BY <2>2, Zenon
<1> HIDE DEF n, At, Body
<1>5. \E f : f = Body(f)
  <2> DEFINE S == {k \in 0..n + 2 : \E f : \A i \in n + 3 - k..n + 2 : f[i] = At(i, f)}
  <2>1. 0 \in S
    BY <1>3
  <2>2. ASSUME NEW k \in 0..n + 1, k \in S
        PROVE  k + 1 \in S
    <3> DEFINE i0 == n + 2 - k
    <3>1. PICK f : \A i \in i0 + 1..n + 2 : f[i] = At(i, f)
      BY <1>3, <2>2
    <3> DEFINE g == [i \in 1..n + 2 |-> IF i = i0 THEN At(i0, f) ELSE f[i]]
    <3>2. i0 \in 1..n + 2 /\ i0..n + 2 \subseteq 1..n + 2
      BY <1>3
    <3>3. \A i \in i0 + 1..n + 2 : g[i] = f[i]
      BY <3>2
    <3>4. g[i0] = At(i0, f)
      BY <3>2
    <3> HIDE DEF g
    <3>5. ASSUME NEW i \in i0..n + 2
          PROVE  g[i] = At(i, g)
      <4>1. At(i, f) = At(i, g)
        <5>1. i \in 1..n + 2 /\ \A k1 \in i + 1..n + 2 : f[k1] = g[k1]
          BY <1>3, <3>2, <3>3
        <5> QED BY <1>4, <5>1, Zenon
      <4>2. g[i] = At(i, f)
        <5>1. CASE i = i0
          BY <3>4, <5>1, Zenon
        <5>2. CASE i # i0
          BY <1>3, <3>1, <3>3, <5>2
        <5> QED BY <5>1, <5>2
      <4> QED BY <4>1, <4>2
    <3>6. i0 = n + 3 - (k + 1) /\ k + 1 \in 0..n + 2
      BY <1>3
    <3> QED BY <3>5, <3>6
  <2>3. n + 2 \in S
    <3> HIDE DEF S
    <3>1. n + 2 \in Nat /\ (n + 2) - 1 = n + 1
      BY <1>3
    <3>2. 0..n + 2 \subseteq S
      BY <2>1, <2>2, <3>1, NatSet
    <3> QED BY <3>1, <3>2
  <2>4. PICK f : \A i \in 1..n + 2 : f[i] = At(i, f)
    BY <1>3, <2>3
  <2> DEFINE g == [i \in 1..n + 2 |-> f[i]]
  <2>5. \A i \in 1..n + 2 : g[i] = f[i]
    OBVIOUS
  <2>6. g = [i \in 1..n + 2 |-> g[i]]
    OBVIOUS
  <2> HIDE DEF g
  <2>7. ASSUME NEW i \in 1..n + 2
        PROVE  g[i] = At(i, g)
    <3>1. \A k \in i + 1..n + 2 : f[k] = g[k]
      BY <1>3, <2>5
    <3>2. At(i, f) = At(i, g)
      BY <1>4, <3>1, Zenon
    <3> QED BY <2>4, <2>5, <3>2, Zenon
  <2>8. g = [i \in 1..n + 2 |-> At(i, g)]
    BY <2>6, <2>7, Zenon
  <2> QED BY <1>2, <2>8, Zenon
<1>6. from = Body(from)
  BY <1>5
<1> HIDE DEF from
<1>7. \A i \in 1..n + 2 : from[i] = At(i, from)
  BY <1>2, <1>6
<1>8. Reads(from, a)
  BY <1>7, Zenon DEF Reads, At, n
<1> QED BY <1>1, <1>8

\* Every switch alone, every option with its value behind one "=".
Joined == {x \in Seq(STRING) \ {<<>>} : \/ Len(x) = 1 /\ x[1] \in Switches
                                        \/ Len(x) = 2 /\ x[1] \in Options}

\* What the loop has appended stays where it is.
LEMMA Kept ==
    ASSUME NEW a \in Seq(Seq(STRING) \ {<<>>}), NEW new, Appends(new, 2, a),
           NEW i \in 1..Len(a)
    PROVE  /\ Len(new[i]) <= Len(new[Len(a)])
           /\ \A p \in 1..Len(new[i]) : new[Len(a)][p] = new[i][p]
<1> DEFINE n == Len(a)
           Grown(k) == /\ Len(new[i]) <= Len(new[i + k])
                       /\ \A p \in 1..Len(new[i]) : new[i + k][p] = new[i][p]
           S == {k \in 0..n - i : Grown(k)}
<1>1. n \in Nat /\ i \in 1..n /\ n - i \in Nat
  OBVIOUS
<1>2. \A j \in 0..n : new[j] \in Seq(Whole)
  BY DEF Appends
<1>3. \A j \in 2..n : new[j] = new[j - 1] \o Split(a[j]) /\ Split(a[j]) \in Seq(Whole)
  <2> SUFFICES ASSUME NEW j \in 2..n
               PROVE  new[j] = new[j - 1] \o Split(a[j]) /\ Split(a[j]) \in Seq(Whole)
    OBVIOUS
  <2>1. j \in 1..n /\ ~ (j < 2) /\ a[j] \in Seq(STRING) \ {<<>>}
    OBVIOUS
  <2> QED BY <2>1, SplitType DEF Appends
<1> HIDE DEF n
<1>4. 0 \in S
  BY <1>1, <1>2
<1>5. ASSUME NEW k \in 0..(n - i) - 1, k \in S
      PROVE  k + 1 \in S
  <2> DEFINE j == i + (k + 1)
             s == new[i + k]
             t == Split(a[j])
  <2>1. j \in 2..n /\ j - 1 = i + k /\ i + k \in 0..n /\ i \in 0..n /\ k + 1 \in 0..n - i
    BY <1>1
  <2>2. new[j] = s \o t /\ t \in Seq(Whole) /\ s \in Seq(Whole) /\ new[i] \in Seq(Whole)
    <3> HIDE DEF j
    <3> QED BY <1>2, <1>3, <2>1
  <2>3. /\ Len(new[i]) <= Len(s)
        /\ \A p \in 1..Len(new[i]) : s[p] = new[i][p]
    BY <1>5
  <2> HIDE DEF j, s, t
  <2>4. /\ Len(s) \in Nat /\ Len(t) \in Nat /\ Len(new[i]) \in Nat
        /\ Len(new[j]) = Len(s) + Len(t)
        /\ \A p \in 1..Len(s) : new[j][p] = s[p]
    <3>1. new[j] = s \o t /\ t \in Seq(Whole) /\ s \in Seq(Whole) /\ new[i] \in Seq(Whole)
      BY <2>2
    <3>2. Len(s) \in Nat /\ Len(t) \in Nat /\ Len(new[i]) \in Nat
      BY <3>1
    <3>3. Len(s \o t) = Len(s) + Len(t) /\ \A p \in 1..Len(s) : (s \o t)[p] = s[p]
      BY <3>1
    <3> QED BY <3>1, <3>2, <3>3
  <2>5. /\ Len(new[i]) <= Len(new[j])
        /\ \A p \in 1..Len(new[i]) : new[j][p] = new[i][p]
    BY <2>3, <2>4
  <2> QED BY <2>1, <2>5 DEF j
<1>6. n - i \in S
  <2> HIDE DEF S
  <2>1. 0..n - i \subseteq S
    BY <1>1, <1>4, <1>5, NatSet
  <2> QED BY <1>1, <2>1
<1>7. Grown(n - i) /\ i + (n - i) = n
  BY <1>1, <1>6
<1> QED BY <1>7 DEF n

LEMMA TailOfTwo ==
    ASSUME NEW D, NEW y \in Seq(D), Len(y) = 2
    PROVE  Tail(y) = <<y[2]>>
<1> DEFINE w == Tail(y)
           z == <<y[2]>>
<1>1. y[2] \in D
  <2>1. \A i \in 1..Len(y) : y[i] \in D
    OBVIOUS
  <2>2. 2 \in 1..Len(y)
    OBVIOUS
  <2> QED BY <2>1, <2>2, Zenon
<1>2. y # <<>>
  <2>1. Len(<<>>) = 0 /\ 0 # 2
    OBVIOUS
  <2> QED BY <2>1, Zenon
<1>3. w \in Seq(D) /\ Len(w) = 1 /\ w[1] = y[2]
  <2>1. /\ w \in Seq(D) /\ Len(w) = Len(y) - 1
        /\ \A i \in 1..Len(w) : w[i] = y[i + 1]
    BY <1>2, HeadTailProperties, Zenon
  <2> HIDE DEF w
  <2>2. Len(w) = 1 /\ 1 \in 1..Len(w) /\ 1 + 1 = 2
    BY <2>1
  <2> QED BY <2>1, <2>2
<1>4. z \in Seq(D) /\ Len(z) = 1 /\ z[1] = y[2]
  BY <1>1
<1> HIDE DEF w, z
<1>5. \A q \in 1..Len(w) : w[q] = z[q]
  BY <1>3, <1>4
<1>6. w = z
  BY <1>3, <1>4, <1>5, SeqEqual, Zenon
<1> QED BY <1>6 DEF w, z

\* Parsing what SplitArgs makes of arguments that are switches, and options joined
\* with their values, is parsing the arguments themselves, but for the first.
LEMMA SplitParsesAlike ==
    ASSUME NEW b \in Seq(Joined), b # <<>>
    PROVE  Parse(SplitFrom(2, b)) = Parse(Tail(b))
<1> DEFINE n == Len(b)
           c == SplitFrom(2, b)
           d == Tail(b)
<1>1. n \in Nat \ {0} /\ d \in Seq(Joined) /\ Len(d) = n - 1
      /\ \A i \in 1..n - 1 : d[i] = b[i + 1] /\ b[i + 1] \in Joined
  OBVIOUS
<1>2. b \in Seq(Seq(STRING) \ {<<>>})
  BY SeqSubset DEF Joined
<1>3. PICK new : c = new[n] /\ Appends(new, 2, b)
  BY <1>2, SplitFromIs
<1>4. /\ c \in Seq(Whole)
      /\ \A i \in 1..n : new[i] \in Seq(Whole) /\ Len(new[i]) \in Nat
      /\ new[1] = <<>>
      /\ \A i \in 2..n : new[i] = new[i - 1] \o Split(b[i])
  <2>1. \A i \in 0..n : new[i] \in Seq(Whole)
    BY <1>3 DEF Appends
  <2>2. \A i \in 1..n : new[i] = IF i < 2 THEN <<>> ELSE new[i - 1] \o Split(b[i])
    BY <1>3 DEF Appends
  <2> HIDE DEF n, c
  <2>3. \A i \in 1..n : new[i] \in Seq(Whole) /\ Len(new[i]) \in Nat
    BY <1>1, <2>1
  <2>4. \A i \in 2..n : i \in 1..n /\ ~ (i < 2)
    BY <1>1
  <2>5. \A i \in 2..n : new[i] = new[i - 1] \o Split(b[i])
    BY <2>2, <2>4, Zenon
  <2>6. new[1] = <<>>
    BY <1>1, <2>2
  <2>7. c \in Seq(Whole)
    BY <1>1, <1>3, <2>1
  <2> QED BY <2>3, <2>5, <2>6, <2>7, Zenon
<1>5. PICK fc : Parse(c) = fc[1] /\ Reads(fc, c)
  BY <1>4, ParseIs
<1>6. PICK fd : Parse(d) = fd[1] /\ Reads(fd, d)
  BY <1>1, ParseIs
<1> HIDE DEF n, c, d
<1> DEFINE at(i) == Len(new[i]) + 1
           S == {k \in 0..n - 1 : fd[n - k] = fc[at(n - k)]}
<1>7. 0 \in S
  <2>1. n \in 1..Len(d) + 2 /\ Stops(d, n)
    BY <1>1 DEF Stops
  <2>2. at(n) \in 1..Len(c) + 2 /\ Stops(c, at(n))
    BY <1>1, <1>3, <1>4 DEF Stops
  <2>3. fd[n] = End /\ fc[at(n)] = End
    BY <1>5, <1>6, <2>1, <2>2, Zenon DEF Reads
  <2>4. n - 0 = n /\ 0 \in 0..n - 1
    BY <1>1
  <2> QED BY <2>3, <2>4
<1>8. ASSUME NEW k \in 0..(n - 1) - 1, k \in S
      PROVE  k + 1 \in S
  <2> DEFINE i == n - (k + 1)
             x == b[i + 1]
             p == at(i)
  <2>1. /\ i \in 1..n - 1 /\ i + 1 = n - k /\ k + 1 \in 0..n - 1
        /\ i \in 1..Len(d) /\ i \in 1..Len(d) + 2 /\ i + 1 \in 2..n /\ i + 1 \in 1..n /\ i \in 1..n
    BY <1>1
  <2> HIDE DEF i
  <2>2. d[i] = x /\ x \in Joined
    BY <1>1, <2>1
  <2>3. fd[i + 1] = fc[at(i + 1)]
    BY <1>8, <2>1
  <2>4. new[i + 1] = new[i] \o Split(x) /\ new[i] \in Seq(Whole) /\ new[i + 1] \in Seq(Whole)
    <3>1. (i + 1) - 1 = i
      BY <2>1
    <3> QED BY <1>4, <2>1, <3>1, Zenon
  <2>5. /\ Len(new[i + 1]) <= Len(c)
        /\ \A q \in 1..Len(new[i + 1]) : c[q] = new[i + 1][q]
    BY <1>2, <1>3, <2>1, Kept DEF n
  <2> HIDE DEF x
  <2>6. fd[i] = fc[p]
    <3>1. CASE Len(x) = 1 /\ x[1] \in Switches
      <4>1. Split(x) = <<x>>
        BY <3>1 DEF Split
      <4>2. /\ at(i + 1) = p + 1 /\ p \in 1..Len(c) + 2 /\ p <= Len(c) /\ c[p] = x
        BY <1>4, <2>4, <2>5, <4>1
      <4>3. ~ Stops(d, i) /\ ~ Stops(c, p)
        BY <1>1, <1>4, <2>1, <2>2, <3>1, <4>2 DEF Stops, Flags
      <4>4. Takes(d, i) = 1 /\ Takes(c, p) = 1
        BY <2>2, <3>1, <4>2 DEF Takes
      <4>5. ValueAt(d, i) = <<"true">> /\ ValueAt(c, p) = <<"true">>
        <5>1. ~ (Len(d[i]) > 1) /\ d[i][1] \in Switches /\ ~ (Len(c[p]) > 1) /\ c[p][1] \in Switches
          <6> HIDE DEF p, at
          <6>1. d[i] = x /\ c[p] = x
            BY <2>2, <4>2, Zenon
          <6>2. ~ (Len(x) > 1)
            BY <3>1
          <6> QED BY <3>1, <6>1, <6>2, Zenon
        <5> QED BY <5>1, Zenon DEF ValueAt
      <4>6. /\ fd[i] = With(d[i][1], ValueAt(d, i), fd[i + Takes(d, i)])
            /\ fc[p] = With(c[p][1], ValueAt(c, p), fc[p + Takes(c, p)])
        BY <1>5, <1>6, <2>1, <4>2, <4>3, Zenon DEF Reads
      <4> HIDE DEF p
      <4> QED BY <2>2, <2>3, <4>2, <4>4, <4>5, <4>6, Zenon
    <3>2. CASE Len(x) = 2 /\ x[1] \in Options
      <4>1. Split(x) = <<<<x[1]>>, <<x[2]>>>>
        BY <3>2 DEF Split
      <4>2. /\ at(i + 1) = p + 2 /\ p \in 1..Len(c) + 2 /\ p < Len(c) /\ p <= Len(c)
            /\ c[p] = <<x[1]>> /\ c[p + 1] = <<x[2]>>
        <5> DEFINE s == new[i]
                   t == new[i + 1]
        <5>1. s \in Seq(Whole) /\ t = s \o <<<<x[1]>>, <<x[2]>>>>
          BY <2>4, <4>1, Zenon
        <5> HIDE DEF s, t
        <5>2. /\ Len(s) \in Nat /\ Len(t) = Len(s) + 2
              /\ t[Len(s) + 1] = <<x[1]>> /\ t[Len(s) + 2] = <<x[2]>>
          BY <5>1
        <5>3. Len(c) \in Nat /\ Len(t) <= Len(c) /\ \A q \in 1..Len(t) : c[q] = t[q]
          BY <1>4, <2>5 DEF t
        <5>4. Len(s) + 1 \in 1..Len(t) /\ Len(s) + 2 \in 1..Len(t)
          BY <5>2
        <5>5. c[Len(s) + 1] = <<x[1]>> /\ c[Len(s) + 2] = <<x[2]>>
          BY <5>2, <5>3, <5>4, Zenon
        <5>6. p = Len(s) + 1 /\ p + 1 = Len(s) + 2 /\ at(i + 1) = Len(t) + 1
          BY <5>2 DEF s, t
        <5> HIDE DEF p, at
        <5> QED BY <5>2, <5>3, <5>5, <5>6
      <4>3. c[p][1] = x[1] /\ Len(c[p]) = 1 /\ x[1] \notin Switches /\ x[1] \in Flags
        BY <3>2, <4>2 DEF Options, Switches, Flags
      <4>4. ~ Stops(d, i) /\ ~ Stops(c, p)
        BY <1>1, <1>4, <2>1, <2>2, <4>2, <4>3 DEF Stops
      <4>5. Takes(d, i) = 1 /\ Takes(c, p) = 2
        BY <2>2, <3>2, <4>3 DEF Takes
      <4>6. ValueAt(d, i) = <<x[2]>> /\ ValueAt(c, p) = <<x[2]>>
        <5>1. Tail(x) = <<x[2]>>
          <6>1. x \in Seq(STRING)
            BY <2>2, Zenon DEF Joined
          <6> QED BY <3>2, <6>1, TailOfTwo, Zenon
        <5> QED BY <2>2, <3>2, <4>2, <4>3, <5>1 DEF ValueAt
      <4>7. /\ fd[i] = With(d[i][1], ValueAt(d, i), fd[i + Takes(d, i)])
            /\ fc[p] = With(c[p][1], ValueAt(c, p), fc[p + Takes(c, p)])
        BY <1>5, <1>6, <2>1, <4>2, <4>4, Zenon DEF Reads
      <4> HIDE DEF p
      <4> QED BY <2>2, <2>3, <4>2, <4>3, <4>5, <4>6, <4>7, Zenon
    <3> QED BY <2>2, <3>1, <3>2 DEF Joined
  <2> QED BY <2>1, <2>6 DEF i
<1>9. n - 1 \in S
  <2> HIDE DEF S
  <2>1. n - 1 \in Nat
    BY <1>1
  <2>2. 0..n - 1 \subseteq S
    BY <1>7, <1>8, <2>1, NatSet
  <2> QED BY <2>1, <2>2
<1>10. fd[1] = fc[1]
  <2>1. n - (n - 1) = 1 /\ at(1) = 1
    BY <1>1, <1>4
  <2> QED BY <1>9, <2>1
<1> QED BY <1>5, <1>6, <1>10 DEF c, d

\* A child that is started reads from its arguments what its parent has read, but
\* for -daemon and the first argument, whatever was given.
THEOREM ChildReadsTheRest == Spec => DaemonKeepsTheRest
<1>1. ASSUME TypeOK, [Next]_vars, stage = "initialised", stage' = "started",
             WithEquals(args), TrimDaemon(args) # <<>>
      PROVE  Parse(args') = Parse(Tail(TrimDaemon(args)))
  <2>1. RunAsDaemon
    BY <1>1 DEF Next, StartApp, UsageExit, LoadFails, Initialise, DaemonFails, GCPanics,
                Exit, RunServer, vars
  <2>2. args \in Seq(Joined)
    <3>1. args \in Seq(Seq(STRING) \ {<<>>})
      BY <1>1 DEF TypeOK
    <3>2. \A i \in 1..Len(args) : args[i] \in Joined
      BY <1>1, <3>1 DEF WithEquals, Joined
    <3> QED BY <3>1, <3>2
  <2>3. TrimDaemon(args) \in Seq(Joined)
    <3>1. TrimDaemon(args) \in Seq(Joined \ {<<"-daemon">>})
      BY <2>2, TrimDaemonType
    <3> QED BY <3>1, SeqSubset
  <2>4. args' = SplitFrom(2, TrimDaemon(args))
    BY <2>1 DEF RunAsDaemon, ChildArgs, SplitArgs
  <2> QED BY <1>1, <2>3, <2>4, SplitParsesAlike, Zenon
<1> QED BY <1>1, TypeCorrect, PTL DEF Spec, DaemonKeepsTheRest

-----------------------------------------------------------------------------

\* Of arguments without "=" SplitArgs drops the first and keeps the others whole.
LEMMA SplitShorter ==
    ASSUME NEW b \in Seq(Whole), b # <<>>
    PROVE  Len(SplitFrom(2, b)) = Len(b) - 1
<1> DEFINE n == Len(b)
<1>1. b \in Seq(Seq(STRING) \ {<<>>})
  <2>1. ASSUME NEW x \in Whole
        PROVE  x \in Seq(STRING) \ {<<>>}
    <3>1. x \in Seq(STRING) /\ Len(x) = 1
      BY Zenon DEF Whole
    <3>2. Len(<<>>) = 0 /\ 0 # 1
      OBVIOUS
    <3> QED BY <3>1, <3>2, Zenon
  <2> QED BY <2>1, SeqSubset
<1>2. PICK new : SplitFrom(2, b) = new[n] /\ Appends(new, 2, b)
  BY <1>1, SplitFromIs
<1>3. n \in Nat \ {0}
  OBVIOUS
<1>4. ASSUME NEW i \in 1..n
      PROVE  Split(b[i]) = <<b[i]>> /\ b[i] \in Whole
  BY DEF Split, Whole
<1>5. /\ \A i \in 0..n : new[i] \in Seq(Whole)
      /\ \A i \in 1..n : new[i] = IF i < 2 THEN <<>> ELSE new[i - 1] \o Split(b[i])
  BY <1>2 DEF Appends
<1> HIDE DEF n
<1> DEFINE S == {k \in 0..n - 1 : Len(new[k + 1]) = k}
<1>6. 0 \in S
  <2>1. new[1] = <<>>
    BY <1>3, <1>5
  <2>2. 0 + 1 = 1 /\ Len(<<>>) = 0
    OBVIOUS
  <2> QED BY <1>3, <2>1, <2>2
<1>7. ASSUME NEW k \in 0..(n - 1) - 1, k \in S
      PROVE  k + 1 \in S
  <2> DEFINE j == k + 2
             s == new[k + 1]
  <2>1. j \in 1..n /\ ~ (j < 2) /\ j - 1 = k + 1 /\ k + 1 \in 0..n /\ (k + 1) + 1 = j
        /\ k + 1 \in 0..n - 1
    BY <1>3
  <2>2. s \in Seq(Whole) /\ Len(s) = k
    BY <1>5, <1>7, <2>1
  <2>3. new[j] = s \o <<b[j]>>
    <3> HIDE DEF j
    <3> QED BY <1>4, <1>5, <2>1
  <2> HIDE DEF j, s
  <2>4. Len(new[j]) = k + 1
    BY <2>2, <2>3
  <2> QED BY <2>1, <2>4
<1>8. n - 1 \in S
  <2> HIDE DEF S
  <2>1. n - 1 \in Nat
    BY <1>3
  <2>2. 0..n - 1 \subseteq S
    BY <1>6, <1>7, <2>1, NatSet
  <2> QED BY <2>1, <2>2
<1>9. (n - 1) + 1 = n
  BY <1>3
<1> QED BY <1>2, <1>8, <1>9 DEF n

\* Nothing is no arguments: -daemon has to be given.
LEMMA NoArgsNoDaemon ==
    Flag(Parse(<<>>).given, "-daemon", <<"false">>) = <<"false">>
<1>1. <<>> \in Seq({}) /\ Len(<<>>) = 0
  OBVIOUS
<1>2. PICK from : Parse(<<>>) = from[1] /\ Reads(from, <<>>)
  BY <1>1, ParseIs
<1>3. 1 \in 1..Len(<<>>) + 2 /\ Stops(<<>>, 1)
  BY <1>1 DEF Stops
<1>4. Parse(<<>>) = End
  BY <1>2, <1>3, Zenon DEF Reads
<1>5. DOMAIN End.given = {}
  BY DEF End
<1> QED BY <1>4, <1>5, Zenon DEF Flag

\* A child that starts one more hands on fewer arguments than it was given,
\* whatever they are: what ends the chain of processes.
THEOREM ChainGetsShorter == Spec => ChainShrinks
<1>1. ASSUME TypeOK, [Next]_vars, child, stage = "initialised", stage' = "started"
      PROVE  Len(args') < Len(args)
  <2> DEFINE b == TrimDaemon(args)
  <2>1. RunAsDaemon
    BY <1>1 DEF Next, StartApp, UsageExit, LoadFails, Initialise, DaemonFails, GCPanics,
                Exit, RunServer, vars
  <2>2. args' = SplitFrom(2, b)
    BY <2>1 DEF RunAsDaemon, ChildArgs, SplitArgs
  <2>3. args \in Seq(Whole)
    <3>1. args \in Seq(Seq(STRING) \ {<<>>})
      BY <1>1, Zenon DEF TypeOK
    <3>2. \A i \in 1..Len(args) : args[i] \in Whole
      <4>1. \A i \in DOMAIN args : Len(args[i]) = 1
        BY <1>1, Zenon DEF TypeOK
      <4> QED BY <3>1, <4>1 DEF Whole
    <3> QED BY <3>1, <3>2
  <2>4. b \in Seq(Whole) /\ Len(b) <= Len(args)
    <3>1. b \in Seq(Whole \ {<<"-daemon">>}) /\ Len(b) <= Len(args)
      BY <2>3, TrimDaemonType
    <3> QED BY <3>1, SeqSubset
  <2>5. args # <<>>
    <3>1. Flag(Parse(args).given, "-daemon", <<"false">>) = <<"true">>
      BY <2>1, Zenon DEF RunAsDaemon, Daemon
    <3>2. <<"true">> # <<"false">>
      OBVIOUS
    <3> QED BY <3>1, <3>2, NoArgsNoDaemon, Zenon
  <2> HIDE DEF b
  <2>6. CASE b # <<>>
    <3>1. Len(args') = Len(b) - 1
      BY <2>2, <2>4, <2>6, SplitShorter, Zenon
    <3>2. Len(b) \in Nat /\ Len(args) \in Nat
      BY <2>3, <2>4
    <3> QED BY <2>4, <3>1, <3>2
  <2>7. CASE b = <<>>
    <3>1. b \in Seq(Seq(STRING) \ {<<>>}) /\ Len(b) = 0
      BY <2>7
    <3>2. PICK new : SplitFrom(2, b) = new[Len(b)] /\ Appends(new, 2, b)
      <4>1. 2 \in Nat \ {0}
        OBVIOUS
      <4> QED BY <3>1, <4>1, SplitFromIs, Zenon
    <3>3. args' = <<>>
      BY <2>2, <3>1, <3>2, Zenon DEF Appends
    <3>4. Len(args') = 0
      BY <3>3
    <3>5. Len(args) \in Nat \ {0}
      BY <2>3, <2>5
    <3> QED BY <3>4, <3>5
  <2> QED BY <2>6, <2>7
<1> QED BY <1>1, TypeCorrect, PTL DEF Spec, ChainShrinks

=============================================================================
