---------------------------- MODULE Access_proofs ----------------------------
(***************************************************************************)
(* Proofs about Access: for any secrets and any files, the daemon serves   *)
(* nobody whom its configuration does not let in.                          *)
(***************************************************************************)
EXTENDS Access, TLAPS

\* The first of three sources that is a secret.
LEMMA FirstOfThree ==
    ASSUME NEW a \in Value, NEW b \in Value, NEW c \in Value
    PROVE  /\ FirstOf(<<a, b, c>>) \in Secret \cup {None}
           /\ a \in Secret => FirstOf(<<a, b, c>>) = a
           /\ a \notin Secret /\ b \in Secret => FirstOf(<<a, b, c>>) = b
           /\ a \notin Secret /\ b \notin Secret =>
                FirstOf(<<a, b, c>>) = IF c \in Secret THEN c ELSE None
<1> DEFINE s == <<a, b, c>>
           yields == {i \in DOMAIN s : s[i] \in Secret}
           least == CHOOSE i \in yields : \A j \in yields : i <= j
<1>1. DOMAIN s = 1..3 /\ s[1] = a /\ s[2] = b /\ s[3] = c
  OBVIOUS
<1>2. FirstOf(s) = IF yields = {} THEN None ELSE s[least]
  BY DEF FirstOf
<1>3. ASSUME yields # {} PROVE least \in yields /\ \A j \in yields : least <= j
  <2>1. \E i \in yields : \A j \in yields : i <= j
    BY <1>1, <1>3
  <2> QED BY <2>1
<1> HIDE DEF s, least
<1>4. CASE a \in Secret
  <2>1. 1 \in yields BY <1>1, <1>4
  <2>2. least = 1 BY <1>1, <1>3, <2>1
  <2> QED BY <1>1, <1>2, <1>4, <2>1, <2>2 DEF s
<1>5. CASE a \notin Secret /\ b \in Secret
  <2>1. 2 \in yields /\ 1 \notin yields BY <1>1, <1>5
  <2>2. least = 2 BY <1>1, <1>3, <2>1
  <2> QED BY <1>1, <1>2, <1>5, <2>1, <2>2 DEF s
<1>6. CASE a \notin Secret /\ b \notin Secret /\ c \in Secret
  <2>1. 3 \in yields /\ 2 \notin yields /\ 1 \notin yields BY <1>1, <1>6
  <2>2. least = 3 BY <1>1, <1>3, <2>1
  <2> QED BY <1>1, <1>2, <1>6, <2>1, <2>2 DEF s
<1>7. CASE a \notin Secret /\ b \notin Secret /\ c \notin Secret
  <2>1. yields = {} BY <1>1, <1>7
  <2> QED BY <1>2, <1>7, <2>1 DEF s
<1> QED BY <1>4, <1>5, <1>6, <1>7

\* What main() ends up with is one of its sources, or nothing.
ChosenFacts ==
    /\ Named \in Path /\ files[Named] \in FileContents
    /\ Used => files[Named] \in Object
    /\ opts.s \in Secret => Chosen = opts.s /\ ~Used
    /\ opts.s \notin Secret /\ env.secret \in Secret =>
         Chosen = env.secret /\ ~Used
    /\ opts.s \notin Secret /\ env.secret \notin Secret /\ Used =>
         Chosen = IF files[Named].secret \in Secret THEN files[Named].secret ELSE None
    /\ opts.s \notin Secret /\ env.secret \notin Secret /\ ~Used => Chosen = None

LEMMA ChosenTyped == TypeOK => ChosenFacts
<1> SUFFICES ASSUME TypeOK PROVE ChosenFacts
  OBVIOUS
<1> DEFINE third == IF Used THEN files[Named].secret ELSE None
<1>1. Named \in Path /\ files[Named] \in FileContents
  BY DEF TypeOK, Named, Path
<1>2. Used => files[Named] \in Object
  BY DEF Used
<1>3. opts.s \in Value /\ env.secret \in Value
  BY DEF TypeOK
<1>4. third \in Value
  BY <1>2 DEF Object, Value
<1>5. (opts.s \in Secret \/ env.secret \in Secret) => ~Used
  BY DEF Used
<1>6. Chosen = FirstOf(<<opts.s, env.secret, third>>)
  BY DEF Chosen
<1>7. None \notin Secret
  BY NameAssumption
<1> HIDE DEF third
<1>8. /\ opts.s \in Secret => Chosen = opts.s
      /\ opts.s \notin Secret /\ env.secret \in Secret => Chosen = env.secret
      /\ opts.s \notin Secret /\ env.secret \notin Secret =>
           Chosen = IF third \in Secret THEN third ELSE None
  BY <1>3, <1>4, <1>6, FirstOfThree
<1> QED BY <1>1, <1>2, <1>5, <1>7, <1>8 DEF third, ChosenFacts

\* The same of the state after a step.
LEMMA ChosenPrimed == TypeOK' => ChosenFacts'
  BY ChosenTyped, PTL

LEMMA InitInv == Init => Inv
<1> SUFFICES ASSUME Init PROVE Inv
  OBVIOUS
<1>1. TypeOK
  BY DEF Init, TypeOK, Starting, Path, Line, Form, Value
<1>2. PostureInv
  BY DEF Init, PostureInv, Starting
<1>3. AsConfigured
  BY DEF Init, AsConfigured, Starting
<1> QED BY <1>1, <1>2, <1>3 DEF Inv

\* The steps of main() up to Apply.
LEMMA StartingInv ==
    ASSUME Inv,
           TakeOption \/ TakeEnv \/ StatFile \/ LoadFile \/ LoadFails \/ Apply
    PROVE  Inv'
<1> USE DEF Inv
<1>a. None \notin Secret /\ Missing \notin Object /\ Broken \notin Object
      /\ FileContents \subseteq Object \cup {Missing, Broken}
  BY NameAssumption, FileAssumption
<1>b. at # "load" \/ files[Named] # Missing
  BY DEF PostureInv
<1>1. CASE TakeOption
  <2>1. TypeOK'
    BY <1>1 DEF TypeOK, TakeOption, config, posture, serving, Starting
  <2>2. PostureInv'
    <3>1. CASE opts.s \in Secret
      <4>1. Chosen' = opts.s /\ ~Used'
        BY <1>1, <2>1, <3>1, ChosenPrimed DEF ChosenFacts, TakeOption, config
      <4> QED BY <1>1, <3>1, <4>1 DEF PostureInv, TakeOption, config, Starting, serving
    <3>2. CASE opts.s \notin Secret
      BY <1>1, <3>2 DEF PostureInv, TakeOption, config, Starting, serving
    <3> QED BY <3>1, <3>2
  <2>3. AsConfigured'
    BY <1>1 DEF AsConfigured, TakeOption, Starting
  <2> QED BY <2>1, <2>2, <2>3
<1>2. CASE TakeEnv
  <2>1. TypeOK'
    BY <1>2 DEF TypeOK, TakeEnv, config, posture, serving, Starting, Path
  <2>2. PostureInv'
    <3>1. CASE env.secret \in Secret
      <4>1. Chosen' = env.secret /\ ~Used'
        BY <1>2, <2>1, <3>1, ChosenPrimed DEF ChosenFacts, TakeEnv, config, PostureInv
      <4> QED BY <1>2, <3>1, <4>1 DEF PostureInv, TakeEnv, config, Starting, serving
    <3>2. CASE env.secret \notin Secret
      BY <1>2, <3>2 DEF PostureInv, TakeEnv, config, Starting, serving, Named
    <3> QED BY <3>1, <3>2
  <2>3. AsConfigured'
    BY <1>2 DEF AsConfigured, TakeEnv, Starting
  <2> QED BY <2>1, <2>2, <2>3
<1>3. CASE StatFile
  <2>1. TypeOK'
    BY <1>3 DEF TypeOK, StatFile, config, posture, serving, Starting
  <2>2. PostureInv'
    <3>1. CASE files[path] = Missing
      <4>1. ~Used'
        BY <1>a, <1>3, <3>1 DEF Used, StatFile, config, PostureInv, Named
      <4>2. Chosen' = None
        BY <1>3, <2>1, <3>1, <4>1, ChosenPrimed DEF ChosenFacts, StatFile, config, PostureInv
      <4> QED BY <1>3, <3>1, <4>1, <4>2 DEF PostureInv, StatFile, config, Starting, serving
    <3>2. CASE files[path] # Missing
      BY <1>3, <3>2 DEF PostureInv, StatFile, config, Starting, serving, Named
    <3> QED BY <3>1, <3>2
  <2>3. AsConfigured'
    BY <1>3 DEF AsConfigured, StatFile, Starting
  <2> QED BY <2>1, <2>2, <2>3
<1>4. CASE LoadFile
  <2>1. Named = path /\ files[Named] \in Object
    BY <1>a, <1>b, <1>4, ChosenTyped DEF ChosenFacts, LoadFile, PostureInv
  <2>2. TypeOK'
    BY <1>4, <2>1 DEF TypeOK, LoadFile, config, posture, serving, Starting, Object
  <2>3. Used'
    BY <1>4, <2>1 DEF Used, LoadFile, config, PostureInv, Named
  <2>4. PostureInv'
    <3>1. Chosen' = secret'
      BY <1>4, <2>1, <2>2, <2>3, ChosenPrimed DEF ChosenFacts, LoadFile, config, PostureInv, Named
    <3>2. open' = (opts.O \/ files[Named].open)
      BY <1>4, <2>1 DEF LoadFile, PostureInv
    <3> QED BY <1>4, <2>1, <2>3, <3>1, <3>2 DEF PostureInv, LoadFile, config, Starting, serving, Named
  <2>5. AsConfigured'
    BY <1>4 DEF AsConfigured, LoadFile, Starting
  <2> QED BY <2>2, <2>4, <2>5
<1>5. CASE LoadFails
  <2>1. TypeOK'
    BY <1>5 DEF TypeOK, LoadFails, config, posture, serving, Starting
  <2>2. ~Used'
    BY <1>5 DEF Used, LoadFails
  <2>3. Chosen' = None
    BY <1>5, <2>1, <2>2, ChosenPrimed DEF ChosenFacts, LoadFails, config, PostureInv
  <2>4. PostureInv'
    BY <1>5, <2>2, <2>3 DEF PostureInv, LoadFails, config, Starting, serving
  <2>5. AsConfigured'
    BY <1>5 DEF AsConfigured, LoadFails, Starting
  <2> QED BY <2>1, <2>4, <2>5
<1>6. CASE Apply
  <2>1. TypeOK'
    BY <1>6 DEF TypeOK, Apply, config, found, serving, Starting
  <2>2. Chosen' = Chosen /\ Used' = Used /\ Named' = Named
    BY <1>6 DEF Chosen, Used, Named, Apply, config, found
  <2>3. PostureInv'
    BY <1>6, <2>2 DEF PostureInv, Apply, config, found, Starting
  <2>4. AsConfigured'
    BY <1>6 DEF AsConfigured, PostureInv, Apply, serving, Starting
  <2> QED BY <2>1, <2>3, <2>4
<1> QED BY <1>1, <1>2, <1>3, <1>4, <1>5, <1>6

\* The gate lets in only whom the documents let in, and all of those unless they
\* go on to the default file.
LEMMA GateExact ==
    ASSUME TypeOK, PostureInv, at \notin Starting
    PROVE  /\ AuthOk(cur) => MayUse(cur)
           /\ MayUse(cur) => AuthOk(cur) \/ GoesOn
<1>1. s_secret \in Secret \cup {None} /\ None \notin Secret
  BY NameAssumption DEF TypeOK
<1>2. s_secret = Chosen /\ (s_open <=> opts.O \/ (Used /\ files[Named].open))
  BY DEF PostureInv
<1>3. GoesOn => Chosen = None
  BY ChosenTyped DEF ChosenFacts, GoesOn, Used
<1> QED BY <1>1, <1>2, <1>3 DEF AuthOk, MayUse, Fourth, Documented

\* A request line changes neither the configuration nor the posture.
LEMMA ServingInv ==
    ASSUME Inv,
           \/ \E l \in Line : Receive(l)
           \/ NotStreaming \/ StreamRefused \/ StreamVerb \/ Malformed
           \/ LineRefused \/ LineVerb \/ UnknownVerb \/ VerbDone \/ Reconnect
    PROVE  Inv'
<1> USE DEF Inv
<1> DEFINE Place == {"recv", "peek", "dispatch", "verb", "closed"}
<1>1. /\ UNCHANGED <<config, found, posture>>
      /\ at \in Place /\ at' \in Place
      /\ cur' \in Line
      /\ reply' \in {"none", "malformed", "unauthorized", "unknown", "done"}
  BY DEF TypeOK, Receive, NotStreaming, StreamRefused, StreamVerb, Malformed,
         LineRefused, LineVerb, UnknownVerb, VerbDone, Reconnect, Answer, serving
<1>2. TypeOK'
  BY <1>1 DEF TypeOK, config, found, posture, Starting
<1>3. Chosen' = Chosen /\ Used' = Used /\ Named' = Named
  BY <1>1 DEF Chosen, Used, Named, config, found
<1>4. PostureInv'
  BY <1>1, <1>3 DEF PostureInv, config, found, posture, Starting
<1>5. at \notin Starting /\ at' \notin Starting
  BY <1>1 DEF Starting
<1>6. /\ GoesOn' <=> GoesOn
      /\ cur' = cur => (MayUse(cur)' <=> MayUse(cur))
  BY <1>1, <1>3 DEF MayUse, GoesOn, Fourth, Documented, config
<1>7. (AuthOk(cur) => MayUse(cur)) /\ (MayUse(cur) => AuthOk(cur) \/ GoesOn)
  BY <1>5, GateExact
<1>8. AsConfigured'
  <2>1. CASE \E l \in Line : Receive(l)
    BY <2>1 DEF AsConfigured, Receive
  <2>2. CASE NotStreaming \/ Malformed
    BY <2>2 DEF AsConfigured, NotStreaming, Malformed, Answer
  <2>3. CASE StreamRefused \/ StreamVerb \/ LineRefused \/ LineVerb \/ UnknownVerb
    BY <1>6, <1>7, <2>3 DEF AsConfigured, StreamRefused, StreamVerb, LineRefused,
       LineVerb, UnknownVerb, Answer
  <2>4. CASE VerbDone \/ Reconnect
    BY <1>5, <1>6, <2>4 DEF AsConfigured, VerbDone, Reconnect, Answer, serving
  <2> QED BY <2>1, <2>2, <2>3, <2>4
<1> QED BY <1>2, <1>4, <1>8

LEMMA StepInv == Inv /\ [Next]_vars => Inv'
<1> SUFFICES ASSUME Inv, [Next]_vars PROVE Inv'
  OBVIOUS
<1>1. CASE TakeOption \/ TakeEnv \/ StatFile \/ LoadFile \/ LoadFails \/ Apply
  BY <1>1, StartingInv
<1>2. CASE \/ \E l \in Line : Receive(l)
           \/ NotStreaming \/ StreamRefused \/ StreamVerb \/ Malformed
           \/ LineRefused \/ LineVerb \/ UnknownVerb \/ VerbDone \/ Reconnect
  BY <1>2, ServingInv
<1>3. CASE UNCHANGED vars
  BY <1>3 DEF Inv, TypeOK, PostureInv, AsConfigured, MayUse, GoesOn, Fourth,
     Documented, Chosen, Used, Named, vars, config, found, posture, serving
<1> QED BY <1>1, <1>2, <1>3 DEF Next

\* The inductive invariant holds for any secrets and any files.
THEOREM Invariance == Spec => []Inv
<1>1. Inv /\ [Next]_vars => Inv'
  BY StepInv
<1> QED BY InitInv, <1>1, PTL DEF Spec

\* A verb runs only for those whom the documents let in, and only others are
\* turned away, unless the documents go on to the default file and the code does
\* not.
THEOREM ServesAsConfigured == Spec => []AsConfigured
<1>1. Inv => AsConfigured
  BY DEF Inv
<1> QED BY Invariance, <1>1, PTL
=============================================================================
