--------------------------- MODULE SnapshotBinding ---------------------------
(***************************************************************************)
(* bind_execution of holder_protocol.py: every signed file of a launch is  *)
(* copied to a snapshot named by its digest, and the command is rewritten  *)
(* to the snapshots.  The sources are edited, replaced by links and put    *)
(* back meanwhile; a bind fails or dies between any two operations and     *)
(* leaves what it wrote; another bind finds it.                            *)
(*                                                                         *)
(* A content stands for its digest.  One bind runs at a time (the holder's *)
(* transaction lock).                                                      *)
(***************************************************************************)
EXTENDS Naturals, Sequences

CONSTANTS
    Sources,      \* files a request may name
    Script,       \* the one of them that starts with a shebang
    Interpreter,  \* the one the shebang names
    Bodies,       \* what a source may contain
    MaxBinds

ASSUME SourcesAssumption == Script \in Sources /\ Interpreter \in Sources

\* Contents, and with them digests: a body, or a script body once its shebang
\* points at the snapshot of an interpreter.
Contents == {<<b>> : b \in Bodies}
Rebound(c, interp) == c \o interp
Digests == Contents \cup {Rebound(c, i) : c \in Contents, i \in Contents}
Absent == <<>>
Partial == <<"partial", "", "">>
Link == <<"link", "", "">>       \* no regular file
NoSource == "no source"

VARIABLES
    live,      \* content of each source in the workspace, or Link
    store,     \* bytes in files/<digest>: Absent, Partial, or a content
    temp,      \* a rebound script not linked to its name yet
    request,   \* the signed request being bound: fingerprints, script or not
    todo,      \* sources still to take
    taking,    \* the source being copied, or NoSource
    got,       \* what its copy read
    taken,     \* snapshots so far: digest of each source
    bound,     \* commands handed to exec: fingerprints and snapshots
    binds

bindVars == <<live, store, temp, request, todo, taking, got, taken, bound, binds>>

NoRequest == [signed |-> [s \in Sources |-> Absent], script |-> FALSE]
NoneTaken == [s \in Sources |-> Absent]
NothingElse == UNCHANGED <<live, temp, request, bound, binds>>

Bind(signed, script) ==
    /\ request = NoRequest /\ binds < MaxBinds /\ binds' = binds + 1
    /\ script => signed[Script] # Absent
    /\ \E s \in Sources : signed[s] # Absent
    /\ request' = [signed |-> signed, script |-> script]
    /\ todo' = {s \in Sources : signed[s] # Absent}
    /\ taking' = NoSource /\ got' = Absent /\ taken' = NoneTaken
    /\ UNCHANGED <<live, store, temp, bound>>

BindEnds ==
    /\ request' = NoRequest /\ todo' = {} /\ taking' = NoSource /\ got' = Absent
    /\ taken' = NoneTaken /\ temp' = Absent

\* A refusal or death: what was written stays, a temporary is in nobody's way.
BindDies ==
    /\ request # NoRequest /\ BindEnds
    /\ UNCHANGED <<live, store, bound, binds>>

\* The source is opened without following a link, and the destination is
\* created exclusively or was there.
Open(s) ==
    /\ taking = NoSource /\ s \in todo /\ live[s] # Link
    /\ taking' = s
    /\ IF store[request.signed[s]] = Absent
       THEN store' = [store EXCEPT ![request.signed[s]] = Partial] /\ got' = Partial
       ELSE got' = live[s] /\ UNCHANGED store
    /\ UNCHANGED <<todo, taken>> /\ NothingElse

\* The bytes read are hashed as they are copied: those of the signed file
Copy ==
    /\ taking # NoSource /\ got = Partial
    /\ live[taking] = request.signed[taking]
    /\ got' = live[taking]
    /\ store' = [store EXCEPT ![got'] = got']
    /\ UNCHANGED <<todo, taking, taken>> /\ NothingElse

\* or others, or a mixture, or a failed write: the new file is removed.
CopyFails ==
    /\ taking # NoSource /\ got = Partial
    /\ store' = [store EXCEPT ![request.signed[taking]] = Absent]
    /\ BindEnds
    /\ UNCHANGED <<live, bound, binds>>

\* Mutant: an existing snapshot is taken without hashing it.
ReusableUnread(d) == TRUE

\* A snapshot is used only if the bytes behind its descriptor hash to its name.
Reusable(d) == store[d] = d

Take ==
    /\ taking # NoSource /\ got = request.signed[taking] /\ Reusable(got)
    /\ taken' = [taken EXCEPT ![taking] = got]
    /\ todo' = todo \ {taking} /\ taking' = NoSource /\ got' = Absent
    /\ UNCHANGED store /\ NothingElse

\* The script is copied again behind a shebang that names the snapshot.
RebindsTo == Rebound(taken[Script], taken[Interpreter])
Rebinding == request.script /\ taken[Interpreter] # Absent /\ taken[Script] \in Contents

WriteTemp ==
    /\ request # NoRequest /\ todo = {} /\ Rebinding /\ temp = Absent
    /\ temp' = RebindsTo
    /\ UNCHANGED <<live, store, request, todo, taking, got, taken, bound, binds>>

LinkTemp ==
    /\ request # NoRequest /\ todo = {} /\ Rebinding /\ temp = RebindsTo
    /\ temp' = Absent
    /\ LET there == store[RebindsTo] # Absent
       IN  /\ store' = IF there THEN store ELSE [store EXCEPT ![RebindsTo] = RebindsTo]
           /\ there => Reusable(RebindsTo)
    /\ taken' = [taken EXCEPT ![Script] = RebindsTo]
    /\ UNCHANGED <<live, request, todo, taking, got, bound, binds>>

\* argv names snapshots only; a script without its interpreter is refused.
Return ==
    /\ request # NoRequest /\ todo = {} /\ ~Rebinding
    /\ request.script => taken[Interpreter] # Absent
    /\ bound' = bound \cup {[signed |-> request.signed, files |-> taken, script |-> request.script]}
    /\ BindEnds
    /\ UNCHANGED <<live, store, binds>>

Edit(s, c) ==
    /\ live[s] # c /\ live' = [live EXCEPT ![s] = c]
    /\ UNCHANGED <<store, temp, request, todo, taking, got, taken, bound, binds>>

-----------------------------------------------------------------------------
Requests == [Sources -> Contents \cup {Absent}]

BindInit ==
    /\ live \in [Sources -> Contents]
    /\ store = [d \in Digests |-> Absent] /\ temp = Absent
    /\ request = NoRequest /\ todo = {} /\ taking = NoSource /\ got = Absent
    /\ taken = NoneTaken /\ bound = {} /\ binds = 0

BindNext ==
    \/ \E signed \in Requests, script \in BOOLEAN : Bind(signed, script)
    \/ \E s \in Sources : Open(s) \/ \E c \in Contents \cup {Link} : Edit(s, c)
    \/ Copy \/ CopyFails \/ Take \/ WriteTemp \/ LinkTemp \/ Return \/ BindDies

BindSpec == BindInit /\ [][BindNext]_bindVars

-----------------------------------------------------------------------------
(* Properties.                                                             *)

\* Every file a returned command names holds the signed bytes, or the signed
\* script behind a shebang that names the signed interpreter, now and after
\* any later bind, however the sources changed and whatever an earlier bind
\* left behind (holder_protocol.py 206-336, 391-516).
BoundIsSigned ==
    \A b \in bound, s \in Sources : b.signed[s] # Absent =>
        /\ store[b.files[s]] = b.files[s]
        /\ b.files[s] = IF b.script /\ s = Script THEN Rebound(b.signed[s], b.signed[Interpreter])
                                                 ELSE b.signed[s]
=============================================================================
