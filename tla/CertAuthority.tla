---------------------------- MODULE CertAuthority ----------------------------
(***************************************************************************)
(* The start of the MITM process up to its first accept: loadOrCreateCA of *)
(* internal/hitman/ca.go, and the leaf certificates it mints while it runs *)
(* (mitm.go).  A certificate authority is a number, and so is the content  *)
(* of its two files; a file that os.WriteFile has truncated and not yet    *)
(* written is Torn.  The process may be killed between any two steps.      *)
(***************************************************************************)
EXTENDS Integers

CONSTANTS
    LeafDays,       \* lifetime of a leaf certificate; the code's is a year
    MarginDays,     \* a leaf is minted again when so little of it is left
    MaxCAs          \* bound: CAs generated

ASSUME CertAssumption ==
    LeafDays \in Nat /\ MarginDays \in Nat /\ MarginDays < LeafDays /\ MaxCAs \in Nat

None == 0
Torn == -1
CAs == 1..MaxCAs
NoLeaf == [ca |-> None, left |-> 0]

VARIABLES
    server,         \* where runServe stands
    cert, key,      \* hitman-ca.pem and hitman-ca.key
    fresh,          \* the last CA that createCA has generated
    ca,             \* the CA of the process
    leaf,           \* certMinter's cache, for one name: its CA and days left
    trusted         \* the CA the client trusts

fileVars == <<cert, key>>
certVars == <<cert, key, fresh, ca, leaf, trusted>>

Starting == {"stat", "load", "cut cert", "cert", "cut key", "key"}

CertInit ==
    /\ server = "down" /\ cert = None /\ key = None
    /\ fresh = None /\ ca = None /\ leaf = NoLeaf /\ trusted = None

-----------------------------------------------------------------------------
(* loadOrCreateCA.                                                         *)

\* The two files are looked for one after the other; nothing else makes them.
Stat ==
    /\ server = "stat"
    /\ IF cert # None /\ key # None
       THEN server' = "load" /\ UNCHANGED fresh
       ELSE server' = "cut cert" /\ fresh < MaxCAs /\ fresh' = fresh + 1
    /\ UNCHANGED <<fileVars, ca, leaf, trusted>>

\* Mutant: what pem.Decode returns is not looked at.
LoadUnparsed ==
    /\ server = "load" /\ server' = "up" /\ ca' = key
    /\ UNCHANGED <<fileVars, fresh, leaf, trusted>>

\* A file that does not parse is fatal.
Load ==
    /\ server = "load"
    /\ IF Torn \in {cert, key}
       THEN server' = "down" /\ UNCHANGED ca
       ELSE server' = "up" /\ ca' = cert
    /\ UNCHANGED <<fileVars, fresh, leaf, trusted>>

WriteCert ==
    /\ \/ server = "cut cert" /\ cert' = Torn /\ server' = "cert"
       \/ server = "cert" /\ cert' = fresh /\ server' = "cut key"
    /\ UNCHANGED <<key, fresh, ca, leaf, trusted>>

WriteKey ==
    /\ \/ server = "cut key" /\ key' = Torn /\ server' = "key" /\ UNCHANGED ca
       \/ server = "key" /\ key' = fresh /\ server' = "up" /\ ca' = fresh
    /\ UNCHANGED <<cert, fresh, leaf, trusted>>

Create == WriteCert \/ WriteKey

Boot == Stat \/ Load \/ Create

\* The process ends; its cache ends with it.
Forget == server' = "down" /\ ca' = None /\ leaf' = NoLeaf

-----------------------------------------------------------------------------
(* getCertificate, under the minter's lock.                                *)

\* Mutant: a cached leaf is shown for ever.
cachedForever == leaf # NoLeaf

cached == leaf # NoLeaf /\ leaf.left > MarginDays

getCertificate == IF cached THEN leaf ELSE [ca |-> ca, left |-> LeafDays]

Accepts(l) == l.ca = trusted /\ l.left > 0

\* The day ends.  Nothing in the process is told.
Day ==
    /\ leaf.left > 0 /\ leaf' = [leaf EXCEPT !.left = @ - 1]
    /\ UNCHANGED <<server, fileVars, fresh, ca, trusted>>

\* `hitman ca-trust`, as the README has it: when the service is up.
CATrust ==
    /\ server = "up" /\ cert \in CAs /\ trusted' = cert
    /\ UNCHANGED <<server, fileVars, fresh, ca, leaf>>

=============================================================================
