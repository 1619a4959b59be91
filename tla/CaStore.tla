------------------------------ MODULE CaStore ------------------------------
(***************************************************************************)
(* The local certificate authority across starts of the program: the key   *)
(* and certificate files under %LOCALAPPDATA%\AppWatch, which every start  *)
(* of ProxyWorker reads and writes, the proxy's port, and the root store   *)
(* the user adds the certificate to.  A certificate is reduced to the key  *)
(* it was made from: its name is the same every time.                      *)
(*                                                                         *)
(* fs::write empties a file and then fills it; the program may be killed,  *)
(* or another one may read the file, in between.                           *)
(***************************************************************************)
EXTENDS Naturals

CONSTANTS
    Missing, Torn,   \* contents of a file that is not there, or half written
    None,
    Instance,        \* AppWatch programs on the machine
    Key,             \* private keys that can be generated
    ReadMayFail,     \* whether reading an intact key file can fail
    MaxStarts        \* bound of a run: programs started

ASSUME CaStoreAssumption ==
    /\ {Missing, Torn, None} \cap Key = {}
    /\ Missing # Torn
    /\ ReadMayFail \in BOOLEAN
    /\ MaxStarts \in Nat

VARIABLES
    stage,      \* per instance, how far ProxyWorker::start is
    key,        \* its key
    key_file, certificate_file,
    trusted,    \* keys whose certificate is in the user's root store
    generated,  \* keys generated so far
    starts,     \* programs started, counted to bound a run
    \* auxiliary
    disturbed,  \* the key file was cut off by the end of a program that was
                \* rewriting it, was intact and could not be read, or may have
                \* been read by one program while another was to write it
    met         \* instances that have run beside another one

files == <<key_file, certificate_file>>
vars == <<stage, key, files, trusted, generated, starts, disturbed,
          met>>

In(i, s) == stage[i] = s

Go(i, s) == stage' = [stage EXCEPT ![i] = s]

Up == {i \in Instance : ~In(i, "down")}

\* Where a program has yet to read the key file, or to write it completely.
Early(i) == stage[i] \in {"read", "save", "fill_key"}

Leave(i) ==
    /\ Go(i, "down")
    /\ key' = [key EXCEPT ![i] = None]
    /\ met' = met \ {i}

-----------------------------------------------------------------------------
Start(i) ==
    /\ In(i, "down")
    /\ starts < MaxStarts
    /\ starts' = starts + 1
    /\ Go(i, "read")
    /\ disturbed' = (disturbed \/ \E j \in Instance : Early(j))
    /\ met' = met \cup (IF Up = {} THEN {} ELSE Up \cup {i})
    /\ UNCHANGED <<key, files, trusted, generated>>

\* Mutant: a saved key is not looked for.
ReadNoKey(i) ==
    /\ In(i, "read")
    /\ Go(i, "save")
    /\ \E k \in Key \ generated :
          /\ key' = [key EXCEPT ![i] = k]
          /\ generated' = generated \cup {k}
    /\ UNCHANGED <<files, trusted, starts, disturbed, met>>

\* The saved key, or, when it cannot be read or parsed, a new one.
ReadKey(i) ==
    /\ In(i, "read")
    /\ Go(i, "save")
    /\ \/ /\ key_file \in Key
          /\ key' = [key EXCEPT ![i] = key_file]
          /\ UNCHANGED <<generated, disturbed>>
       \/ /\ key_file \notin Key \/ ReadMayFail
          /\ disturbed' = (disturbed \/ key_file \in Key)
          /\ \E k \in Key \ generated :
                /\ key' = [key EXCEPT ![i] = k]
                /\ generated' = generated \cup {k}
    /\ UNCHANGED <<files, trusted, starts, met>>

\* save_ca_private_key
EmptyKeyFile(i) ==
    /\ In(i, "save")
    /\ key_file' = Torn
    /\ Go(i, "fill_key")
    /\ UNCHANGED <<key, certificate_file, trusted, generated, starts, disturbed,
                   met>>

FillKeyFile(i) ==
    /\ In(i, "fill_key")
    /\ key_file' = key[i]
    /\ Go(i, "export")
    /\ UNCHANGED <<key, certificate_file, trusted, generated, starts, disturbed,
                   met>>

\* Mutant: a certificate that is there is left as it is.
EmptyMissingCertificateFile(i) ==
    /\ In(i, "export")
    /\ certificate_file' = IF certificate_file = Missing THEN Torn
                                                         ELSE certificate_file
    /\ Go(i, IF certificate_file = Missing THEN "fill_certificate" ELSE "bind")
    /\ UNCHANGED <<key, key_file, trusted, generated, starts, disturbed,
                   met>>

\* export_ca_certificate
EmptyCertificateFile(i) ==
    /\ In(i, "export")
    /\ certificate_file' = Torn
    /\ Go(i, "fill_certificate")
    /\ UNCHANGED <<key, key_file, trusted, generated, starts, disturbed,
                   met>>

FillCertificateFile(i) ==
    /\ In(i, "fill_certificate")
    /\ certificate_file' = key[i]
    /\ Go(i, "bind")
    /\ UNCHANGED <<key, key_file, trusted, generated, starts, disturbed,
                   met>>

\* HttpProxy::start: one program at a time has the port, and not necessarily
\* one of these.
Bind(i) ==
    /\ In(i, "bind")
    /\ \/ Leave(i)
       \/ /\ \A j \in Instance : ~In(j, "serving")
          /\ Go(i, "serving") /\ UNCHANGED <<key, met>>
    /\ UNCHANGED <<files, trusted, generated, starts, disturbed>>

\* trust_https_certificate: certutil adds what the certificate file holds.
Trust(i) ==
    /\ In(i, "serving")
    /\ certificate_file \in Key
    /\ trusted' = trusted \cup {certificate_file}
    /\ UNCHANGED <<stage, key, files, generated, starts, disturbed,
                   met>>

\* The program is closed, killed, or gives up where it is because a write
\* fails.
End(i) ==
    /\ ~In(i, "down")
    /\ disturbed' = (disturbed \/ In(i, "fill_key"))
    /\ Leave(i)
    /\ UNCHANGED <<files, trusted, generated, starts>>

-----------------------------------------------------------------------------
\* A machine on which AppWatch has not run yet.
Init ==
    /\ stage = [i \in Instance |-> "down"]
    /\ key = [i \in Instance |-> None]
    /\ key_file = Missing /\ certificate_file = Missing
    /\ trusted = {} /\ generated = {} /\ starts = 0
    /\ disturbed = FALSE /\ met = {}

Next ==
    \E i \in Instance :
        \/ Start(i) \/ ReadKey(i)
        \/ EmptyKeyFile(i) \/ FillKeyFile(i)
        \/ EmptyCertificateFile(i) \/ FillCertificateFile(i)
        \/ Bind(i) \/ Trust(i) \/ End(i)

Spec == Init /\ [][Next]_vars

-----------------------------------------------------------------------------
\* README, HTTPS Inspection: key and certificate persist "so the trusted
\* certificate remains valid after the application restarts".  Whoever has
\* trusted the certificate once is served with a trusted one ever after.
TrustedStaysValid ==
    \A i \in Instance :
        In(i, "serving") /\ trusted # {} => key[i] \in trusted

\* The promise holds as long as every rewrite of the key file that was begun
\* was completed, the file could be read, and no program read it that another
\* was about to write.  Programs that are closed or killed anywhere else do it
\* no harm, nor does a second one started later.
TrustedUnlessDisturbed == ~disturbed => TrustedStaysValid

\* A key that is on disk, or will be when a rewrite that has begun is done.
Kept(k) ==
    \/ key_file = k
    \/ \E i \in Instance : In(i, "fill_key") /\ key[i] = k

\* The certificate the user is asked to trust is that of the proxy that
\* serves, and a restart will use it too: exactly, whatever happened to the
\* files in earlier starts, for a program that has had the files to itself;
\* except while another one rewrites or has cut them off, for one that was
\* joined by others.
ServedIsExported ==
    \A i \in Instance : In(i, "serving") =>
        /\ i \notin met => certificate_file = key[i] /\ key_file = key[i]
        /\ ~disturbed => certificate_file \in {key[i], Torn} /\ Kept(key[i])

\* Through all restarts the files are one certificate store: the first key
\* written is the authority from then on, rewriting it changes nothing, whoever
\* gets the port serves with it, also a program that read the files before
\* another wrote them, and no other certificate is ever offered to be trusted.
Authority ==
    IF \E k \in Key : Kept(k) THEN CHOOSE k \in Key : Kept(k) ELSE None

Served == {key[i] : i \in {j \in Instance : In(j, "serving")}}

Store == INSTANCE CertificateStore
            WITH authority <- Authority, served <- Served

StorePromise == Store!SpecStore

-----------------------------------------------------------------------------
(***************************************************************************)
(* The invariant the proofs rest on.                                       *)
(***************************************************************************)
CaStoreTypeOK ==
    /\ stage \in [Instance -> {"down", "read", "save", "fill_key", "export",
                               "fill_certificate", "bind", "serving"}]
    /\ key \in [Instance -> Key \cup {None}]
    /\ key_file \in Key \cup {Missing, Torn}
    /\ certificate_file \in Key \cup {Missing, Torn}
    /\ trusted \subseteq Key /\ generated \subseteq Key
    /\ starts \in Nat
    /\ disturbed \in BOOLEAN
    /\ met \subseteq Instance

\* Programs past a step have a key and have written what the step writes.
Written(i) ==
    /\ stage[i] \notin {"down", "read"} => key[i] \in Key
    /\ stage[i] \in {"fill_certificate", "bind", "serving"} =>
          certificate_file # Missing

\* A program that is by itself finds its files as it wrote them.
Alone(i) ==
    ~In(i, "down") /\ i \notin met =>
        /\ Up = {i}
        /\ stage[i] \in {"export", "fill_certificate", "bind", "serving"} =>
              key_file = key[i]
        /\ stage[i] \in {"bind", "serving"} => certificate_file = key[i]

\* Undisturbed there is one key for all: whoever has not written it yet will
\* write the one on disk, and whatever was trusted or exported is kept.
OneKey ==
    /\ \A i, j \in Instance : Early(i) /\ Early(j) => i = j
    /\ \A i \in Instance : In(i, "fill_key") => key_file = Torn
    /\ key_file = Torn => \E i \in Instance : In(i, "fill_key")
    /\ \A i \in Instance :
          In(i, "save") /\ key_file \in Key => key[i] = key_file
    /\ \A i \in Instance :
          stage[i] \in {"export", "fill_certificate", "bind", "serving"} =>
              Kept(key[i])
    /\ certificate_file \in Key => Kept(certificate_file)
    /\ \A k \in trusted : Kept(k)

CaStoreInv ==
    /\ CaStoreTypeOK
    /\ \A i \in Instance : Written(i) /\ Alone(i)
    /\ ~disturbed => OneKey
=============================================================================
