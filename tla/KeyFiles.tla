------------------------------- MODULE KeyFiles -------------------------------
(***************************************************************************)
(* keygen: processes that write one X25519 identity to a private and a     *)
(* public file (key_agreement.py, write_keypair), one system call at a     *)
(* time.  Any call may fail, an interrupt may arrive anywhere, and a       *)
(* process may be killed without running its clean-up.  Between runs the   *)
(* operator may remove files.                                              *)
(***************************************************************************)
EXTENDS KeyPairs

CONSTANT Generators    \* processes that may run keygen with the same two paths

VARIABLES
  private,    \* the private key file
  public,     \* the public key file
  process,    \* [Generators -> what write_keypair is about to do, and its keypair]
  made,       \* keypairs generated so far
  killed      \* history: the keypairs whose process was killed

keyVars == <<private, public, process, made, killed>>

Steps == {"gone", "open_private", "write_private", "open_public",
          "write_public", "return", "clean_up"}

Guarded == {"write_private", "open_public", "write_public", "return"}    \* the try block

Process == [at : Steps, identity : 0 .. MaxIdentities]

Gone == [at |-> "gone", identity |-> 0]

Quiet == \A g \in Generators : process[g] = Gone

Advance(g, step) == process' = [process EXCEPT ![g].at = step]

Ends(g) == process' = [process EXCEPT ![g] = Gone]

Init ==
  /\ private = NoFile
  /\ public = NoFile
  /\ process = [g \in Generators |-> Gone]
  /\ made = 0
  /\ killed = {}

(***************************************************************************)
(* write_keypair                                                           *)
(***************************************************************************)

\* generate_keypair: a fresh identity.
Generate(g) ==
  /\ process[g] = Gone
  /\ made < MaxIdentities
  /\ made' = made + 1
  /\ process' = [process EXCEPT ![g] = [at |-> "open_private", identity |-> made']]
  /\ UNCHANGED <<private, public, killed>>

\* Bug: the private os.open is inside the try block.
OpenPrivateGuarded(g) ==
  /\ process[g].at = "open_private"
  /\ IF private = NoFile
       THEN private' = Begun(process[g].identity) /\ Advance(g, "write_private")
       ELSE UNCHANGED private /\ Advance(g, "clean_up")
  /\ UNCHANGED <<public, made, killed>>

\* os.open with O_EXCL; when the file exists the exception is raised before
\* the try block and nothing is cleaned up.
OpenPrivate(g) ==
  /\ process[g].at = "open_private"
  /\ IF private = NoFile
       THEN private' = Begun(process[g].identity) /\ Advance(g, "write_private")
       ELSE UNCHANGED private /\ Ends(g)
  /\ UNCHANGED <<public, made, killed>>

WritePrivate(g) ==
  /\ process[g].at = "write_private"
  /\ private' = Whole(process[g].identity)
  /\ Advance(g, "open_public")
  /\ UNCHANGED <<public, made, killed>>

\* Bug: the public os.open is outside the try block.
OpenPublicUnguarded(g) ==
  /\ process[g].at = "open_public"
  /\ IF public = NoFile
       THEN public' = Begun(process[g].identity) /\ Advance(g, "write_public")
       ELSE UNCHANGED public /\ Ends(g)
  /\ UNCHANGED <<private, made, killed>>

OpenPublic(g) ==
  /\ process[g].at = "open_public"
  /\ IF public = NoFile
       THEN public' = Begun(process[g].identity) /\ Advance(g, "write_public")
       ELSE UNCHANGED public /\ Advance(g, "clean_up")
  /\ UNCHANGED <<private, made, killed>>

WritePublic(g) ==
  /\ process[g].at = "write_public"
  /\ public' = Whole(process[g].identity)
  /\ Advance(g, "return")
  /\ UNCHANGED <<private, made, killed>>

Return(g) ==
  /\ process[g].at = "return"
  /\ Ends(g)
  /\ UNCHANGED <<private, public, made, killed>>

\* except BaseException: unlink whatever is at the private path.
CleanUp(g) ==
  /\ process[g].at = "clean_up"
  /\ private' = NoFile
  /\ Ends(g)
  /\ UNCHANGED <<public, made, killed>>

(***************************************************************************)
(* Failures                                                                *)
(***************************************************************************)

\* os.open or an interrupt raises before the try block.
FailOutside(g) ==
  /\ process[g].at = "open_private"
  /\ Ends(g)
  /\ UNCHANGED <<private, public, made, killed>>

\* A call or an interrupt raises in the try block.  Closing a file flushes what
\* was written to it, all or a part.
FailInside(g) ==
  /\ process[g].at \in Guarded
  /\ Advance(g, "clean_up")
  /\ \E flushed \in BOOLEAN :
       /\ private' = IF process[g].at = "write_private" THEN [private EXCEPT !.whole = flushed] ELSE private
       /\ public' = IF process[g].at = "write_public" THEN [public EXCEPT !.whole = flushed] ELSE public
  /\ UNCHANGED <<made, killed>>

\* An interrupt between the private os.open and the try block, or SIGKILL or a
\* power failure at any time: no clean-up.
Kill(g) ==
  /\ process[g] # Gone
  /\ killed' = killed \cup {process[g].identity}
  /\ Ends(g)
  /\ UNCHANGED <<private, public, made>>

\* The operator removes a file while no keygen runs.
Remove ==
  /\ Quiet
  /\ \/ private # NoFile /\ private' = NoFile /\ UNCHANGED public
     \/ public # NoFile /\ public' = NoFile /\ UNCHANGED private
  /\ UNCHANGED <<process, made, killed>>

Next ==
  \/ \E g \in Generators :
       \/ Generate(g) \/ OpenPrivate(g) \/ WritePrivate(g) \/ OpenPublic(g)
       \/ WritePublic(g) \/ Return(g) \/ CleanUp(g)
       \/ FailOutside(g) \/ FailInside(g) \/ Kill(g)
  \/ Remove

Spec == Init /\ [][Next]_keyVars

(***************************************************************************)
(* Properties                                                              *)
(***************************************************************************)

\* Type invariant.
TypeOK ==
  /\ private \in File /\ public \in File
  /\ process \in [Generators -> Process]
  /\ made \in 0 .. MaxIdentities
  /\ killed \subseteq Identities

\* Once no keygen runs, a private key and a public key that are both complete
\* belong together, whichever of two runs created them and whatever failed,
\* unless the run that wrote the private key was killed: its clean-up is what
\* removes a private key whose public file already existed.
FilesMatch ==
  Quiet /\ private.whole /\ public.whole =>
    private.of = public.of \/ private.of \in killed

\* A private key whose run is over is not overwritten and not removed by
\* another run (docs/security-analysis.md: the generator "refuses to overwrite
\* an existing identity"); only the operator removes it.
Settled(identity) == \A g \in Generators : process[g].identity # identity

IdentityIsKept ==
  [][private # NoFile /\ Settled(private.of) =>
       private' = private \/ (Quiet /\ private' = NoFile)]_keyVars
=============================================================================
