------------------------------- MODULE Access -------------------------------
(***************************************************************************)
(* Who is answered: how main() finds the secret and the posture of the     *)
(* daemon among its options, its environment and a file                    *)
(* (heliosLoadSecretFile), and the gate in front of the verbs on the two   *)
(* paths a request line can take, heliosHandleStreaming() and              *)
(* heliosDispatch().                                                       *)
(*                                                                         *)
(* A secret is opaque.  None is a value that is not there or not a string, *)
(* Empty an empty string.  The configuration is chosen at the start and    *)
(* read once; a file may become unreadable while it is read.               *)
(***************************************************************************)
EXTENDS Naturals, Sequences

CONSTANTS
    Secret,        \* strings that are not empty
    None, Empty,   \* no string, the empty string
    Missing,       \* content of a file that is not there
    Broken,        \* content of a file that cannot be used
    FileContents   \* what the files may be

Value == Secret \cup {None, Empty}

\* A file that parses to a JSON object: its "secret", its "allow_open".
Object == [secret : Value, open : BOOLEAN]

\* -S, HELIOS_SECRET_FILE, and the default path.
Path == {"option", "env", "default"}

\* What a line of a client is to the two paths: no JSON object, no verb, a
\* verb of heliosDispatch(), one that nobody knows, put_file or get_file.
Form == {"invalid", "noverb", "line", "unknown", "stream"}
Line == [form : Form, auth : Value]

ASSUME NameAssumption ==
    /\ None # Empty /\ Missing # Broken
    /\ Secret \cap {None, Empty} = {} /\ {Missing, Broken} \cap Object = {}
ASSUME FileAssumption == FileContents \subseteq Object \cup {Missing, Broken}

VARIABLES
    opts,     \* -s, whether there is a -S, and -O
    env,      \* HELIOS_SECRET, and whether there is a HELIOS_SECRET_FILE
    files,    \* files[p]: the file at each path
    at,       \* where the process is: in main(), or serving a line
    path,     \* the path that main() looks at
    warned,   \* cfgWarn is not empty
    secret,   \* `secret` in main(), None for a null pointer
    open,     \* allowOpen in main()
    s_secret, \* Dispatch.cpp: s_secret, None while s_haveSecret is 0
    s_open,   \* Dispatch.cpp
    cur,      \* the line being handled
    reply     \* the answer to it

config  == <<opts, env, files>>
found   == <<path, warned, secret, open>>
posture == <<s_secret, s_open>>
serving == <<cur, reply>>
vars == <<config, at, found, posture, serving>>

Init ==
    /\ opts \in [s : Value, S : BOOLEAN, O : BOOLEAN]
    /\ env \in [secret : Value, file : BOOLEAN]
    /\ files \in [Path -> FileContents]
    /\ at = "options" /\ path = "default" /\ warned = FALSE
    /\ secret = None /\ open = opts.O
    /\ s_secret = None /\ s_open = FALSE
    /\ cur = [form |-> "invalid", auth |-> None] /\ reply = "none"

(***************************************************************************)
(* main(): where the secret comes from.                                    *)
(***************************************************************************)

\* -s counts unless it is empty.
TakeOption ==
    /\ at = "options"
    /\ secret' = IF opts.s \in Secret THEN opts.s ELSE None
    /\ at' = IF opts.s \in Secret THEN "apply" ELSE "env"
    /\ UNCHANGED <<config, path, warned, open, posture, serving>>

\* So does HELIOS_SECRET; else a file is looked at, and only one.
TakeEnv ==
    /\ at = "env"
    /\ secret' = IF env.secret \in Secret THEN env.secret ELSE None
    /\ at' = IF env.secret \in Secret THEN "apply" ELSE "stat"
    /\ path' = IF opts.S THEN "option" ELSE IF env.file THEN "env" ELSE "default"
    /\ UNCHANGED <<config, warned, open, posture, serving>>

\* stat(): the default file need not be there.
StatFile ==
    /\ at = "stat"
    /\ at' = IF files[path] = Missing THEN "apply" ELSE "load"
    /\ warned' = (files[path] = Missing /\ path # "default")
    /\ UNCHANGED <<config, path, secret, open, posture, serving>>

\* Mutant of LoadFile: the file's "allow_open" replaces -O.
LoadFile_Forgets ==
    /\ at = "load" /\ files[path] # Broken
    /\ secret' = IF files[path].secret \in Secret THEN files[path].secret ELSE None
    /\ open' = files[path].open
    /\ at' = "apply"
    /\ UNCHANGED <<config, path, warned, posture, serving>>

\* heliosLoadSecretFile() returns 0: the object may have a secret, and may
\* open the daemon.
LoadFile ==
    /\ at = "load" /\ files[path] # Broken
    /\ secret' = IF files[path].secret \in Secret THEN files[path].secret ELSE None
    /\ open' = (open \/ files[path].open)
    /\ at' = "apply"
    /\ UNCHANGED <<config, path, warned, posture, serving>>

\* -1: bad permissions or JSON, a read error, no memory, or the file has gone
\* since stat().
LoadFails ==
    /\ at = "load"
    /\ warned' = TRUE
    /\ at' = "apply"
    /\ UNCHANGED <<config, path, secret, open, posture, serving>>

\* heliosSetSecret( secret ), heliosSetOpen( allowOpen ).
Apply ==
    /\ at = "apply"
    /\ s_secret' = secret /\ s_open' = open
    /\ at' = "recv"
    /\ UNCHANGED <<config, found, serving>>

(***************************************************************************)
(* A request line.                                                         *)
(***************************************************************************)

\* Mutant of AuthOk: no look at s_haveSecret, and an empty "auth" equals no secret.
AuthOk_NoSecret(l) ==
    s_open \/ (l.auth # None /\ l.auth = IF s_secret = None THEN Empty ELSE s_secret)

\* authOk()
AuthOk(l) == s_open \/ (s_secret # None /\ l.auth # None /\ l.auth = s_secret)

Receive(l) ==
    /\ at = "recv"
    /\ cur' = l /\ reply' = "none"
    /\ at' = "peek"
    /\ UNCHANGED <<config, found, posture>>

Answer(r, next) ==
    /\ reply' = r
    /\ at' = next
    /\ UNCHANGED <<config, found, posture, cur>>

\* heliosHandleStreaming(): everything else is for heliosDispatch(), ...
NotStreaming ==
    /\ at = "peek" /\ cur.form # "stream"
    /\ Answer("none", "dispatch")

\* ... an unauthorized upload cannot be framed and ends the connection, ...
StreamRefused ==
    /\ at = "peek" /\ cur.form = "stream" /\ ~AuthOk(cur)
    /\ Answer("unauthorized", "closed")

\* ... an authorized one goes to its verb.
StreamVerb ==
    /\ at = "peek" /\ cur.form = "stream" /\ AuthOk(cur)
    /\ Answer("none", "verb")

\* heliosDispatch(): no JSON object, no verb.
Malformed ==
    /\ at = "dispatch" /\ cur.form \in {"invalid", "noverb"}
    /\ Answer("malformed", "recv")

LineRefused ==
    /\ at = "dispatch" /\ cur.form \in {"line", "unknown"} /\ ~AuthOk(cur)
    /\ Answer("unauthorized", "recv")

LineVerb ==
    /\ at = "dispatch" /\ cur.form = "line" /\ AuthOk(cur)
    /\ Answer("none", "verb")

UnknownVerb ==
    /\ at = "dispatch" /\ cur.form = "unknown" /\ AuthOk(cur)
    /\ Answer("unknown", "recv")

\* The verb answers; put_file may have to end the connection.
VerbDone ==
    /\ at = "verb"
    /\ \/ Answer("done", "recv")
       \/ cur.form = "stream" /\ Answer("done", "closed")

\* The next client.
Reconnect ==
    /\ at = "closed"
    /\ at' = "recv"
    /\ UNCHANGED <<config, found, posture, serving>>

Next ==
    \/ TakeOption \/ TakeEnv \/ StatFile \/ LoadFile \/ LoadFails \/ Apply
    \/ \E l \in Line : Receive(l)
    \/ NotStreaming \/ StreamRefused \/ StreamVerb
    \/ Malformed \/ LineRefused \/ LineVerb \/ UnknownVerb \/ VerbDone
    \/ Reconnect

Spec == Init /\ [][Next]_vars

(***************************************************************************)
(* Properties.                                                             *)
(***************************************************************************)

Starting == {"options", "env", "stat", "load", "apply"}

TypeOK ==
    /\ opts \in [s : Value, S : BOOLEAN, O : BOOLEAN]
    /\ env \in [secret : Value, file : BOOLEAN]
    /\ files \in [Path -> FileContents]
    /\ at \in Starting \cup {"recv", "peek", "dispatch", "verb", "closed"}
    /\ path \in Path /\ warned \in BOOLEAN
    /\ secret \in Secret \cup {None} /\ open \in BOOLEAN
    /\ s_secret \in Secret \cup {None} /\ s_open \in BOOLEAN
    /\ cur \in Line
    /\ reply \in {"none", "malformed", "unauthorized", "unknown", "done"}

\* The file the configuration names, and whether it came to be used: nothing
\* above it gave a secret, it was there, and reading it went well.
Named == IF opts.S THEN "option" ELSE IF env.file THEN "env" ELSE "default"
Used ==
    /\ opts.s \notin Secret /\ env.secret \notin Secret
    /\ files[Named] \in Object /\ ~warned

\* "the first source that yields a non-empty value" (PROTOCOL.md:223).
FirstOf(sources) ==
    LET yields == {i \in DOMAIN sources : sources[i] \in Secret}
    IN  IF yields = {} THEN None
        ELSE sources[CHOOSE i \in yields : \A j \in yields : i <= j]

\* The secret of the code: the option, the environment and that one file.
Chosen == FirstOf(<<opts.s, env.secret, IF Used THEN files[Named].secret ELSE None>>)

\* The documents (PROTOCOL.md:226-229, HeliosAgent.cpp:531-533) have a fourth
\* source, the default file, which is next when a file that -S or
\* HELIOS_SECRET_FILE names is in order and has no secret.  The code ends its
\* search there.
GoesOn == Used /\ Named # "default" /\ files[Named].secret \notin Secret
Fourth == GoesOn /\ files["default"] \in Object
Documented == IF Fourth THEN files["default"].secret ELSE Chosen

\* By the documents a client may use the verbs if the daemon was told to run
\* open, by -O or by a file that is read, or if its "auth" is the secret of the
\* first source.
MayUse(l) ==
    \/ opts.O \/ (Used /\ files[Named].open) \/ (Fourth /\ files["default"].open)
    \/ l.auth \in Secret /\ l.auth = Documented

\* Fail-closed, on either path: a verb runs, and a client learns which verbs
\* there are, only when the documents let it; no missing, empty or broken source
\* opens the daemon.  Whoever is turned away is one they do not let in, except
\* where they go on to the default file and the code does not: then it turns
\* away too many.  Without any secret everyone is turned away, as
\* PROTOCOL.md:240 says; the comment at Dispatch.cpp:149, which calls the gate a
\* no-op then, is not what the code does.
AsConfigured ==
    at \notin Starting =>
        /\ (at = "verb" \/ reply \in {"done", "unknown"}) => MayUse(cur)
        /\ reply = "unauthorized" => ~MayUse(cur) \/ GoesOn

\* The posture that serves is the one that was configured: the inductive part
\* of the proof.
PostureInv ==
    /\ at \in Starting => reply = "none"
    /\ at \in {"options", "env"} => secret = None /\ (open <=> opts.O) /\ ~warned
    /\ at \in {"env", "stat", "load"} => opts.s \notin Secret
    /\ at \in {"stat", "load"} => env.secret \notin Secret
    /\ at \in {"stat", "load"} => path = Named /\ secret = None /\ (open <=> opts.O) /\ ~warned
    /\ at = "load" => files[path] # Missing
    /\ at = "apply" =>
         secret = Chosen /\ (open <=> opts.O \/ (Used /\ files[Named].open))
    /\ at \notin Starting =>
         s_secret = Chosen /\ (s_open <=> opts.O \/ (Used /\ files[Named].open))

Inv == TypeOK /\ PostureInv /\ AsConfigured
=============================================================================
