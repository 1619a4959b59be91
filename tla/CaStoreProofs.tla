--------------------------- MODULE CaStoreProofs ---------------------------
(***************************************************************************)
(* Theorems of CaStore, for any number of programs, keys and starts.       *)
(***************************************************************************)
EXTENDS CaStore, TLAPS

USE DEF files, In, Go

\* Whoever leaves is down, without a key, and has met nobody; nothing else
\* changes for the others.
LEMMA Leaving ==
    ASSUME CaStoreTypeOK, NEW i \in Instance, Leave(i)
    PROVE  /\ stage'[i] = "down" /\ met' \subseteq met
           /\ \A j \in Instance \ {i} :
                 /\ stage'[j] = stage[j] /\ key'[j] = key[j]
                 /\ j \in met <=> j \in met'
           /\ stage' \in [Instance -> {"down", "read", "save", "fill_key",
                   "export", "fill_certificate", "bind", "serving"}]
           /\ key' \in [Instance -> Key \cup {None}]
BY DEF CaStoreTypeOK, Leave

LEMMA TypeStep ==
    ASSUME CaStoreTypeOK, \A i \in Instance : Written(i), [Next]_vars
    PROVE  CaStoreTypeOK'
<1> USE DEF CaStoreTypeOK
<1>1. ASSUME NEW i \in Instance, Start(i) \/ ReadKey(i)
      PROVE  CaStoreTypeOK'
  <2>1. CASE Start(i)
    BY <2>1 DEF Start, Up
  <2>2. CASE ReadKey(i)
    <3>1. PICK k \in Key : key' = [key EXCEPT ![i] = k]
      BY <2>2 DEF ReadKey
    <3>2. generated' \subseteq Key /\ disturbed' \in BOOLEAN
      BY <2>2 DEF ReadKey
    <3> QED BY <2>2, <3>1, <3>2 DEF ReadKey
  <2> QED BY <1>1, <2>1, <2>2
<1>2. ASSUME NEW i \in Instance,
             EmptyKeyFile(i) \/ FillKeyFile(i)
             \/ EmptyCertificateFile(i) \/ FillCertificateFile(i)
      PROVE  CaStoreTypeOK'
  BY <1>2
  DEF EmptyKeyFile, FillKeyFile, EmptyCertificateFile, FillCertificateFile,
      Written
<1>3. ASSUME NEW i \in Instance, Bind(i) \/ End(i)
      PROVE  CaStoreTypeOK'
  BY <1>3, Leaving DEF Bind, End
<1>4. ASSUME NEW i \in Instance, Trust(i)
      PROVE  CaStoreTypeOK'
  BY <1>4 DEF Trust
<1> QED BY <1>1, <1>2, <1>3, <1>4 DEF Next, vars

LEMMA WrittenStep ==
    ASSUME CaStoreTypeOK, \A i \in Instance : Written(i), [Next]_vars
    PROVE  \A i \in Instance : Written(i)'
<1> USE CaStoreAssumption DEF CaStoreTypeOK, Written
<1>1. ASSUME NEW i \in Instance, Start(i) \/ ReadKey(i)
      PROVE  \A j \in Instance : Written(j)'
  BY <1>1 DEF Start, ReadKey
<1>2. ASSUME NEW i \in Instance,
             EmptyKeyFile(i) \/ FillKeyFile(i)
             \/ EmptyCertificateFile(i) \/ FillCertificateFile(i)
      PROVE  \A j \in Instance : Written(j)'
  BY <1>2
  DEF EmptyKeyFile, FillKeyFile, EmptyCertificateFile, FillCertificateFile
<1>3. ASSUME NEW i \in Instance, Leave(i), UNCHANGED files
      PROVE  \A j \in Instance : Written(j)'
  BY <1>3, Leaving
<1>4. ASSUME NEW i \in Instance, Bind(i) \/ End(i) \/ Trust(i)
      PROVE  \A j \in Instance : Written(j)'
  BY <1>3, <1>4 DEF Bind, End, Trust
<1> QED BY <1>1, <1>2, <1>3, <1>4 DEF Next, vars

LEMMA AloneStep ==
    ASSUME CaStoreTypeOK, \A i \in Instance : Alone(i), [Next]_vars
    PROVE  \A i \in Instance : Alone(i)'
<1> USE DEF CaStoreTypeOK, Alone, Up
<1>1. ASSUME NEW i \in Instance, Start(i)
      PROVE  \A j \in Instance : Alone(j)'
  BY <1>1 DEF Start
<1>2. ASSUME NEW i \in Instance,
             ReadKey(i) \/ EmptyKeyFile(i) \/ FillKeyFile(i)
             \/ EmptyCertificateFile(i) \/ FillCertificateFile(i)
      PROVE  \A j \in Instance : Alone(j)'
  <2>1. /\ stage[i] # "down" /\ UNCHANGED met
        /\ stage'[i] # "down"
        /\ \A j \in Instance \ {i} : stage'[j] = stage[j] /\ key'[j] = key[j]
    BY <1>2
    DEF ReadKey, EmptyKeyFile, FillKeyFile, EmptyCertificateFile,
        FillCertificateFile
  <2>2. \A j \in Instance \ {i} : Alone(j)'
    BY <2>1
  <2>3. Alone(i)'
    BY <1>2, <2>1
    DEF ReadKey, EmptyKeyFile, FillKeyFile, EmptyCertificateFile,
        FillCertificateFile
  <2> QED BY <2>2, <2>3
<1>3. ASSUME NEW i \in Instance, Leave(i), i \in Up, UNCHANGED files
      PROVE  \A j \in Instance : Alone(j)'
  BY <1>3, Leaving
<1>4. ASSUME NEW i \in Instance, Bind(i) \/ End(i) \/ Trust(i)
      PROVE  \A j \in Instance : Alone(j)'
  <2>1. CASE Leave(i)
    BY <1>3, <1>4, <2>1 DEF Bind, End, Trust
  <2>2. CASE ~Leave(i)
    BY <1>4, <2>2 DEF Bind, End, Trust
  <2> QED BY <2>1, <2>2
<1> QED BY <1>1, <1>2, <1>3, <1>4 DEF Next, vars

\* Past the key file a program's key, once kept, stays kept until the key file
\* is disturbed.
LEMMA OneKeyStep ==
    ASSUME CaStoreTypeOK, \A i \in Instance : Written(i), OneKey,
           [Next]_vars, ~disturbed'
    PROVE  OneKey'
<1> USE CaStoreAssumption DEF CaStoreTypeOK, Early
<1>1. ASSUME NEW i \in Instance, Start(i)
      PROVE  OneKey'
  <2>1. \A j \in Instance : ~Early(j)
    BY <1>1 DEF Start
  <2>2. /\ stage'[i] = "read" /\ UNCHANGED <<key, files, trusted>>
        /\ \A j \in Instance \ {i} : stage'[j] = stage[j]
    BY <1>1 DEF Start
  <2>3. \A k : Kept(k)' <=> Kept(k)
    BY <2>1, <2>2 DEF Kept
  <2> QED BY <2>1, <2>2, <2>3 DEF OneKey
<1>2. ASSUME NEW i \in Instance, ReadKey(i)
      PROVE  OneKey'
  <2>1. /\ Early(i) /\ stage'[i] = "save" /\ UNCHANGED <<files, trusted>>
        /\ \A j \in Instance \ {i} :
              stage'[j] = stage[j] /\ key'[j] = key[j] /\ ~Early(j)
    BY <1>2 DEF ReadKey, OneKey
  <2>2. key_file # Torn
    BY <1>2, <2>1 DEF OneKey, ReadKey
  <2>3. key_file \in Key => key'[i] = key_file
    BY <1>2 DEF ReadKey
  <2>4. \A k : Kept(k)' <=> Kept(k)
    BY <1>2, <2>1 DEF Kept, ReadKey
  <2> QED BY <2>1, <2>2, <2>3, <2>4 DEF OneKey
<1>3. ASSUME NEW i \in Instance, EmptyKeyFile(i)
      PROVE  OneKey'
  <2>1. /\ Early(i) /\ stage[i] = "save" /\ stage'[i] = "fill_key"
        /\ key_file' = Torn /\ UNCHANGED <<key, certificate_file, trusted>>
        /\ \A j \in Instance \ {i} : stage'[j] = stage[j] /\ ~Early(j)
    BY <1>3 DEF EmptyKeyFile, OneKey
  <2>2. \A k \in Key : Kept(k) => Kept(k)'
    BY <2>1 DEF Kept, OneKey
  <2>3. \A j \in Instance \ {i} : stage[j] \notin {"down", "read"} =>
            key[j] \in Key
    BY DEF Written
  <2> QED BY <2>1, <2>2, <2>3 DEF OneKey
<1>4. ASSUME NEW i \in Instance, FillKeyFile(i)
      PROVE  OneKey'
  <2>1. /\ Early(i) /\ stage[i] = "fill_key" /\ stage'[i] = "export"
        /\ key_file = Torn /\ key_file' = key[i] /\ key[i] \in Key
        /\ UNCHANGED <<key, certificate_file, trusted>>
        /\ \A j \in Instance \ {i} : stage'[j] = stage[j] /\ ~Early(j)
    BY <1>4 DEF FillKeyFile, OneKey, Written
  <2>2. \A k \in Key : Kept(k) => Kept(k)'
    BY <2>1 DEF Kept
  <2>3. Kept(key[i])'
    BY <2>1 DEF Kept
  <2>4. \A j \in Instance \ {i} : stage[j] \notin {"down", "read"} =>
            key[j] \in Key
    BY DEF Written
  <2> QED BY <2>1, <2>2, <2>3, <2>4 DEF OneKey
<1>5. ASSUME NEW i \in Instance,
             \/ EmptyCertificateFile(i) \/ FillCertificateFile(i)
             \/ (Bind(i) /\ ~Leave(i)) \/ Trust(i)
      PROVE  OneKey'
  <2>1. /\ UNCHANGED <<key, key_file>> /\ ~Early(i) /\ ~Early(i)'
        /\ stage[i] \in {"export", "fill_certificate", "bind", "serving"}
        /\ \A j \in Instance \ {i} : stage'[j] = stage[j]
    BY <1>5 DEF EmptyCertificateFile, FillCertificateFile, Bind, Trust
  <2>2. \A k : Kept(k)' <=> Kept(k)
    BY <2>1 DEF Kept
  <2>3. /\ certificate_file' \in {certificate_file, Torn, key[i]}
        /\ \/ trusted' = trusted
           \/ /\ certificate_file \in Key
              /\ trusted' = trusted \cup {certificate_file}
    <3>1. CASE EmptyCertificateFile(i) \/ FillCertificateFile(i)
      BY <3>1 DEF EmptyCertificateFile, FillCertificateFile
    <3>2. CASE Bind(i)
      BY <3>2 DEF Bind
    <3>3. CASE Trust(i)
      BY <3>3 DEF Trust
    <3> QED BY <1>5, <3>1, <3>2, <3>3
  <2> QED BY <2>1, <2>2, <2>3 DEF OneKey
<1>6. ASSUME NEW i \in Instance, Leave(i), ~In(i, "fill_key"),
             UNCHANGED <<files, trusted>>
      PROVE  OneKey'
  <2>1. /\ stage'[i] = "down"
        /\ \A j \in Instance \ {i} : stage'[j] = stage[j] /\ key'[j] = key[j]
    BY <1>6, Leaving
  <2>2. \A k : Kept(k)' <=> Kept(k)
    BY <1>6, <2>1 DEF Kept
  <2> QED BY <1>6, <2>1, <2>2 DEF OneKey
<1>7. ASSUME NEW i \in Instance, End(i) \/ (Bind(i) /\ Leave(i))
      PROVE  OneKey'
  BY <1>6, <1>7 DEF End, Bind
<1>8. CASE UNCHANGED vars
  BY <1>8 DEF OneKey, Kept, vars
<1>9. ASSUME NEW i \in Instance, Bind(i)
      PROVE  OneKey'
  BY <1>5, <1>7, <1>9
<1>10. CASE \E i \in Instance :
               \/ Start(i) \/ ReadKey(i)
               \/ EmptyKeyFile(i) \/ FillKeyFile(i)
               \/ EmptyCertificateFile(i) \/ FillCertificateFile(i)
               \/ Bind(i) \/ Trust(i) \/ End(i)
  BY <1>1, <1>2, <1>3, <1>4, <1>5, <1>7, <1>9, <1>10
<1> QED BY <1>8, <1>10 DEF Next

\* The files and the keys of all programs fit together, whoever ends where.
THEOREM CaStoreInvariant == Spec => []CaStoreInv
<1>1. Init => CaStoreInv
  <2> SUFFICES ASSUME Init PROVE CaStoreInv
    OBVIOUS
  <2>1. CaStoreTypeOK
    BY DEF Init, CaStoreTypeOK
  <2>2. \A i \in Instance : Written(i) /\ Alone(i)
    BY DEF Init, Written, Alone
  <2>3. OneKey
    BY CaStoreAssumption DEF Init, OneKey, Early
  <2> QED BY <2>1, <2>2, <2>3 DEF CaStoreInv
<1>2. CaStoreInv /\ [Next]_vars => CaStoreInv'
  <2> SUFFICES ASSUME CaStoreInv, [Next]_vars PROVE CaStoreInv'
    OBVIOUS
  <2>1. disturbed => disturbed'
    BY DEF Next, Start, ReadKey, EmptyKeyFile, FillKeyFile,
           EmptyCertificateFile, FillCertificateFile, Bind, Trust, End,
           CaStoreInv, CaStoreTypeOK, vars
  <2> QED
    BY <2>1, TypeStep, WrittenStep, AloneStep, OneKeyStep DEF CaStoreInv
<1> QED BY <1>1, <1>2, PTL DEF Spec

\* Undisturbed, a trusted certificate is served for ever after, however many
\* programs run and wherever they end.
THEOREM TrustedStays == Spec => []TrustedUnlessDisturbed
<1>1. CaStoreInv => TrustedUnlessDisturbed
  <2> SUFFICES ASSUME CaStoreInv, ~disturbed, NEW i \in Instance,
                      In(i, "serving"), NEW k \in trusted
               PROVE  key[i] = k
    BY DEF TrustedUnlessDisturbed, TrustedStaysValid
  <2>1. Kept(k) /\ Kept(key[i]) /\ k \in Key /\ key[i] \in Key
    BY DEF CaStoreInv, CaStoreTypeOK, OneKey, Written
  <2>2. \A j \in Instance : In(j, "fill_key") => key_file = Torn
    BY DEF CaStoreInv, OneKey
  <2>3. \A j, l \in Instance : In(j, "fill_key") /\ In(l, "fill_key") => j = l
    BY DEF CaStoreInv, OneKey, Early
  <2> QED BY <2>1, <2>2, <2>3, CaStoreAssumption DEF Kept
<1> QED BY <1>1, CaStoreInvariant, PTL

\* The certificate to trust is the one served, also after earlier damage.
THEOREM ServedCertificateExported == Spec => []ServedIsExported
<1>1. CaStoreInv => ServedIsExported
  <2> SUFFICES ASSUME CaStoreInv, NEW i \in Instance, In(i, "serving")
               PROVE  /\ i \notin met =>
                            certificate_file = key[i] /\ key_file = key[i]
                      /\ ~disturbed =>
                            certificate_file \in {key[i], Torn} /\ Kept(key[i])
    BY DEF ServedIsExported
  <2>1. i \notin met => certificate_file = key[i] /\ key_file = key[i]
    BY DEF CaStoreInv, Alone
  <2>2. ASSUME ~disturbed
        PROVE  certificate_file \in {key[i], Torn} /\ Kept(key[i])
    <3>1. Kept(key[i]) /\ key[i] \in Key /\ certificate_file # Missing
      BY <2>2 DEF CaStoreInv, OneKey, Written
    <3>2. certificate_file \in Key => Kept(certificate_file)
      BY <2>2 DEF CaStoreInv, OneKey
    <3>3. /\ \A j \in Instance : In(j, "fill_key") => key_file = Torn
          /\ \A j, l \in Instance :
                In(j, "fill_key") /\ In(l, "fill_key") => j = l
      BY <2>2 DEF CaStoreInv, OneKey, Early
    <3>4. certificate_file \in Key => certificate_file = key[i]
      BY <3>1, <3>2, <3>3, CaStoreAssumption DEF Kept
    <3> QED BY <3>1, <3>4 DEF CaStoreInv, CaStoreTypeOK
  <2> QED BY <2>1, <2>2
<1> QED BY <1>1, CaStoreInvariant, PTL

-----------------------------------------------------------------------------
(***************************************************************************)
(* CertificateStore                                                        *)
(***************************************************************************)
\* Undisturbed, there is one key that is kept at most.
LEMMA AuthorityIsKept ==
    ASSUME CaStoreTypeOK, OneKey, NEW k \in Key, Kept(k)
    PROVE  Authority = k /\ Authority # None
<1>1. \A l \in Key : Kept(l) => l = k
  BY CaStoreAssumption DEF Kept, OneKey, Early
<1>2. Kept(Authority) /\ Authority \in Key
  BY DEF Authority
<1> QED BY <1>1, <1>2, CaStoreAssumption

\* The same after a step.
LEMMA AuthorityIsKeptNext ==
    ASSUME CaStoreTypeOK', OneKey', NEW k \in Key, Kept(k)'
    PROVE  Authority' = k /\ Authority' # None
<1>1. \A l \in Key : Kept(l)' => l = k
  BY CaStoreAssumption DEF Kept, OneKey, Early
<1>2. Authority' \in Key /\ (Kept(Authority))'
  BY DEF Authority, Kept
<1> QED BY <1>1, <1>2, CaStoreAssumption DEF Kept

\* What is kept stays kept and the authority is the same, if nothing new is.
LEMMA AuthorityStays ==
    ASSUME CaStoreTypeOK, OneKey, CaStoreTypeOK', OneKey',
           \A k \in Key : Kept(k)' <=> Kept(k)
    PROVE  Authority' = Authority
<1>1. CASE \E k \in Key : Kept(k)
  BY <1>1, AuthorityIsKept, AuthorityIsKeptNext
<1>2. CASE ~\E k \in Key : Kept(k)
  BY <1>2 DEF Authority
<1> QED BY <1>1, <1>2

\* A step that neither binds nor leaves has the same programs serve.
LEMMA ServedStays ==
    ASSUME CaStoreTypeOK, NEW i \in Instance, ~In(i, "serving"),
           stage'[i] # "serving",
           \A j \in Instance \ {i} : stage'[j] = stage[j] /\ key'[j] = key[j]
    PROVE  Served' = Served
BY DEF Served

\* Whoever serves undisturbed does so with the authority.
LEMMA ServedIsAuthority ==
    ASSUME CaStoreInv, ~disturbed
    PROVE  /\ Served \subseteq {Authority}
           /\ \A i \in Instance : In(i, "serving") => key[i] = Authority
<1>1. ASSUME NEW i \in Instance, In(i, "serving")
      PROVE  key[i] = Authority
  <2>1. key[i] \in Key /\ Kept(key[i])
    BY <1>1 DEF CaStoreInv, Written, OneKey
  <2> QED BY <2>1, AuthorityIsKept DEF CaStoreInv
<1> QED BY <1>1 DEF Served

\* Each step of a program is one of the store's, or of no concern to it, if
\* it disturbs nothing.
LEMMA StoreStep ==
    ASSUME CaStoreInv, CaStoreInv', [Next]_vars
    PROVE  [Store!NextStore]_Store!storeVars
<1> USE CaStoreAssumption DEF Store!NextStore, Store!storeVars
<1>1. CASE disturbed'
  BY <1>1 DEF Store!Disturb, CaStoreInv, CaStoreTypeOK
<1> SUFFICES ASSUME ~disturbed'
             PROVE  [Store!NextStore]_Store!storeVars
  BY <1>1
<1>2. ~disturbed /\ ~disturbed' /\ disturbed' = disturbed
  BY DEF Next, Start, ReadKey, EmptyKeyFile, FillKeyFile,
         EmptyCertificateFile, FillCertificateFile, Bind, Trust, End,
         CaStoreInv, CaStoreTypeOK, vars
<1>3. CaStoreTypeOK /\ OneKey /\ CaStoreTypeOK' /\ OneKey'
  BY <1>2 DEF CaStoreInv
<1>4. ASSUME NEW i \in Instance, Start(i) \/ ReadKey(i)
      PROVE  [Store!NextStore]_Store!storeVars
  <2>1. /\ UNCHANGED <<files, trusted>>
        /\ stage[i] \notin {"fill_key", "serving"}
        /\ stage'[i] \notin {"fill_key", "serving"}
        /\ \A j \in Instance \ {i} : stage'[j] = stage[j] /\ key'[j] = key[j]
    BY <1>3, <1>4 DEF Start, ReadKey, CaStoreTypeOK
  <2>2. Authority' = Authority
    BY <1>3, <2>1, AuthorityStays DEF Kept
  <2> QED BY <1>2, <1>3, <2>1, <2>2, ServedStays
<1>5. ASSUME NEW i \in Instance, EmptyKeyFile(i)
      PROVE  [Store!NextStore]_Store!storeVars
  <2>1. /\ stage[i] = "save" /\ stage'[i] = "fill_key"
        /\ key_file' = Torn /\ UNCHANGED <<key, trusted>>
        /\ \A j \in Instance \ {i} : stage'[j] = stage[j]
        /\ key[i] \in Key
    BY <1>3, <1>5 DEF EmptyKeyFile, CaStoreTypeOK, CaStoreInv, Written
  <2>2. Authority' = key[i]
    BY <1>3, <2>1, AuthorityIsKeptNext DEF Kept, CaStoreTypeOK
  <2>3. Served' = Served
    BY <1>3, <2>1, ServedStays
  <2>4. CASE key_file \in Key
    <3>1. Kept(key[i])
      BY <1>3, <2>1, <2>4 DEF Kept, OneKey
    <3> QED BY <1>2, <1>3, <2>1, <2>2, <2>3, <3>1, AuthorityIsKept
  <2>5. CASE key_file \notin Key
    <3>1. \A j \in Instance : ~In(j, "fill_key")
      BY <1>3, <2>1 DEF OneKey, Early
    <3>2. Authority = None
      BY <2>5, <3>1 DEF Authority, Kept
    <3> QED BY <1>2, <2>1, <2>2, <2>3, <3>2 DEF Store!Choose
  <2> QED BY <2>4, <2>5
<1>6. ASSUME NEW i \in Instance, FillKeyFile(i)
      PROVE  [Store!NextStore]_Store!storeVars
  <2>1. /\ stage[i] = "fill_key" /\ stage'[i] = "export"
        /\ key_file' = key[i] /\ UNCHANGED <<key, trusted>>
        /\ \A j \in Instance \ {i} : stage'[j] = stage[j]
        /\ key[i] \in Key
    BY <1>3, <1>6 DEF FillKeyFile, CaStoreTypeOK, CaStoreInv, Written
  <2>2. Kept(key[i]) /\ Kept(key[i])'
    BY <2>1 DEF Kept
  <2>3. Authority' = Authority
    BY <1>3, <2>1, <2>2, AuthorityIsKept, AuthorityIsKeptNext
  <2>4. Served' = Served
    BY <1>3, <2>1, ServedStays
  <2> QED BY <1>2, <2>1, <2>3, <2>4
<1>7. ASSUME NEW i \in Instance,
             EmptyCertificateFile(i) \/ FillCertificateFile(i)
      PROVE  [Store!NextStore]_Store!storeVars
  <2>1. /\ UNCHANGED <<key, key_file, trusted>>
        /\ stage[i] \notin {"fill_key", "serving"}
        /\ stage'[i] \notin {"fill_key", "serving"}
        /\ \A j \in Instance \ {i} : stage'[j] = stage[j]
    BY <1>3, <1>7
    DEF EmptyCertificateFile, FillCertificateFile, CaStoreTypeOK
  <2>2. Authority' = Authority
    BY <1>3, <2>1, AuthorityStays DEF Kept
  <2> QED BY <1>2, <1>3, <2>1, <2>2, ServedStays
<1>8. ASSUME NEW i \in Instance, Bind(i), ~Leave(i)
      PROVE  [Store!NextStore]_Store!storeVars
  <2>1. /\ stage[i] = "bind" /\ stage'[i] = "serving"
        /\ UNCHANGED <<key, files, trusted>>
        /\ \A j \in Instance : ~In(j, "serving")
        /\ \A j \in Instance \ {i} : stage'[j] = stage[j]
        /\ key[i] \in Key
    BY <1>3, <1>8 DEF Bind, CaStoreTypeOK, CaStoreInv, Written
  <2>2. Authority = key[i] /\ Authority # None
    BY <1>3, <2>1, AuthorityIsKept DEF OneKey
  <2>3. Authority' = Authority
    BY <1>3, <2>1, AuthorityStays DEF Kept
  <2>4. Served = {} /\ Served' = {key[i]}
    BY <2>1 DEF Served
  <2> QED BY <1>2, <2>1, <2>2, <2>3, <2>4 DEF Store!Serve
<1>9. ASSUME NEW i \in Instance, Leave(i), ~In(i, "fill_key"),
             UNCHANGED <<files, trusted>>
      PROVE  [Store!NextStore]_Store!storeVars
  <2>1. /\ stage'[i] = "down"
        /\ \A j \in Instance \ {i} : stage'[j] = stage[j] /\ key'[j] = key[j]
    BY <1>3, <1>9, Leaving
  <2>2. Authority' = Authority
    BY <1>3, <1>9, <2>1, AuthorityStays DEF Kept
  <2>3. Served' \subseteq Served /\ Served \subseteq {Authority}
    BY <1>2, <2>1, ServedIsAuthority DEF Served
  <2>4. Served' = Served \/ Served' = {}
    BY <2>3
  <2> QED BY <1>2, <1>9, <2>2, <2>4 DEF Store!Close
<1>10. ASSUME NEW i \in Instance, Trust(i)
       PROVE  [Store!NextStore]_Store!storeVars
  <2>1. /\ UNCHANGED <<stage, key, files>> /\ In(i, "serving")
        /\ certificate_file \in Key
        /\ trusted' = trusted \cup {certificate_file}
    BY <1>10 DEF Trust
  <2>2. certificate_file = Authority
    BY <1>3, <2>1, AuthorityIsKept DEF OneKey
  <2>3. Served = {Authority}
    BY <1>2, <2>1, ServedIsAuthority DEF Served
  <2>4. Served' = Served /\ Authority' = Authority
    BY <2>1 DEF Served, Authority, Kept
  <2> QED BY <1>2, <2>1, <2>2, <2>3, <2>4 DEF Store!Trust
<1>11. ASSUME NEW i \in Instance, End(i) \/ Bind(i)
       PROVE  [Store!NextStore]_Store!storeVars
  BY <1>2, <1>8, <1>9, <1>11 DEF End, Bind
<1>12. CASE UNCHANGED vars
  BY <1>12 DEF vars, Served, Authority, Kept
<1> QED
  BY <1>4, <1>5, <1>6, <1>7, <1>10, <1>11, <1>12 DEF Next

\* Undisturbed, the files are one certificate store through all restarts, for
\* any number of programs, also side by side.
THEOREM StorePromiseKept == Spec => StorePromise
<1>1. Init => Store!InitStore
  BY CaStoreAssumption
  DEF Init, Store!InitStore, Authority, Served, Kept
<1>2. CaStoreInv /\ CaStoreInv' /\ [Next]_vars
        => [Store!NextStore]_Store!storeVars
  BY StoreStep
<1> QED
  BY <1>1, <1>2, CaStoreInvariant, PTL
  DEF Spec, StorePromise, Store!SpecStore
=============================================================================
