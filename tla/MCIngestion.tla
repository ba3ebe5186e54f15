---------------------------- MODULE MCIngestion ----------------------------
(***************************************************************************)
(* Two uploads that share contents and file names, in one tenant or two,   *)
(* drawn from requests that hold every kind of file.                       *)
(***************************************************************************)
EXTENDS Ingestion

F(n, s, k) == [name |-> n, sha |-> s, kind |-> k]
R(t, super, fs) == [tenant |-> t, bySuper |-> super, files |-> fs]

\* Contents x and y under two names: duplicates within an upload, across
\* uploads and across tenants; one file that cannot be indexed of each kind.
MixedRequests ==
  {R("optics", FALSE, <<F("a", "x", "text"), F("b", "y", "text")>>),
   R("optics", FALSE, <<F("b", "x", "text"), F("a", "x", "text")>>),
   R("physics", TRUE, <<F("a", "y", "text"), F("c", "w", "blank")>>),
   R("physics", FALSE, <<F("a", "z", "unsupported"), F("c", "v", "unstorable")>>)}

\* Text only: what can still go wrong is the race of two uploads.
TextRequests ==
  {R("optics", FALSE, <<F("a", "x", "text"), F("b", "y", "text")>>),
   R("optics", FALSE, <<F("b", "x", "text")>>)}

=============================================================================
