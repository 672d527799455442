------------------------------ MODULE TrustProofs ------------------------------
(* Theorems about Trust, for any hosts, containers, sets of aliases and      *)
(* number of scripts and stops: the authority's files are of one key pair,   *)
(* every server trusts the key that signs, and a chain certifies the private *)
(* key beside it.                                                            *)
EXTENDS Trust, TLAPS

\* The last file makes the authority valid, and the others are whole by then.
Whole ==
    /\ file[priv_key_file] \in Key
    /\ file[pub_crt_file] = file[priv_key_file]
    /\ file[pub_ssh_file] = file[priv_key_file]
    /\ file[pw_file] \in {file[priv_key_file], Empty}

\* What is left to write of the authority's key k, and what was.
CommitLeft(k) ==
    \/ /\ writes = AuthorityWrites(k) /\ file[pw_file] = Absent
    \/ /\ writes = <<To(pub_crt_file, k), To(pub_ssh_file, k), To(pw_file, k)>>
       /\ file[priv_key_file] = k /\ file[pw_file] = Absent
    \/ /\ writes = <<To(pub_ssh_file, k), To(pw_file, k)>>
       /\ file[priv_key_file] = k /\ file[pub_crt_file] = k /\ file[pw_file] = Absent
    \/ /\ writes = <<To(pw_file, k)>>
       /\ file[priv_key_file] = k /\ file[pub_crt_file] = k /\ file[pub_ssh_file] = k
       /\ file[pw_file] = IF opened THEN Empty ELSE Absent

Authority ==
    /\ Exists(pw_file) => Whole
    /\ row => Exists(pw_file)
    /\ pc = "commit" =>
          /\ ~row
          /\ IF writes = << >> THEN Exists(pw_file) ELSE \E k \in Key : CommitLeft(k)
    /\ pc \notin {"down", "commit"} => row

\* Until the row is committed nobody was given a key; after it none is made.
Trusting ==
    /\ ~row => published = NoKey /\ \A h \in Hosts : trusts[h] = NoKey
    /\ published \in {NoKey, file[pub_ssh_file]}
    /\ \A h \in Hosts : trusts[h] \in {NoKey, file[pub_ssh_file]}
    /\ pc \notin {"down", "commit", "ready"} => published # NoKey
    /\ pc \notin {"down", "commit", "ready", "servers"} => \A h \in Hosts : trusts[h] # NoKey
    /\ signer # NoKey => pc = "push" /\ signer = file[priv_key_file]

Ordering == {"account", "order", "challenge", "verify", "issued"}
Ordered  == AliasesOf[container]

\* A private key is replaced as long as there is no chain; a chain is written
\* when the key it certifies was.
Certificates ==
    /\ \A c \in Certs : Exists(chain(c)) =>
          /\ file[private(c)] \in Key
          /\ file[chain(c)] \in {Empty, file[private(c)]}
    /\ pc \in Ordering => order \in Key
    /\ pc \in Ordering \ {"issued"} => ~Exists(chain(Ordered))
    /\ pc = "account" => \/ writes = <<To(private(Ordered), order)>>
                         \/ writes = << >> /\ file[private(Ordered)] = order
    /\ pc \in Ordering \ {"account"} => file[private(Ordered)] = order
    /\ pc = "issued" => \/ writes = << >>
                        \/ /\ writes = <<To(chain(Ordered), order)>>
                           /\ file[chain(Ordered)] = IF opened THEN Empty ELSE Absent
    /\ \A n \in Containers : Certifies(archive[n]) /\ Certifies(delivered[n])

\* The key is stored last, beside its registration.
AccountLeft(k) ==
    \/ writes = AccountWrites(k) /\ ~Exists(acme_account_key_file)
    \/ /\ writes = <<To(acme_account_key_file, k)>>
       /\ file[acme_registration_file] = k
       /\ file[acme_account_key_file] = IF opened THEN Empty ELSE Absent

Account ==
    /\ file[acme_account_key_file] \in {Absent, Empty} \/
          /\ file[acme_account_key_file] \in accounts
          /\ file[acme_registration_file] = file[acme_account_key_file]
    /\ pc = "order" => writes = << >> \/ \E k \in accounts : AccountLeft(k)

\* A script writes at these stages only.
Quiet == pc \notin {"commit", "account", "order", "issued"} => writes = << >>

IInv == TypeOK /\ Authority /\ Trusting /\ Certificates /\ Account /\ Quiet
-----------------------------------------------------------------------------
\* No two names are of one file.
LEMMA FileFacts ==
    /\ CAFiles \subseteq Files
    /\ acme_registration_file \in Files /\ acme_account_key_file \in Files
    /\ \A c \in Certs : chain(c) \in Files /\ private(c) \in Files
    /\ priv_key_file # pub_crt_file /\ priv_key_file # pub_ssh_file /\ priv_key_file # pw_file
    /\ pub_crt_file # pub_ssh_file /\ pub_crt_file # pw_file /\ pub_ssh_file # pw_file
    /\ acme_registration_file # acme_account_key_file
    /\ acme_registration_file \notin CAFiles /\ acme_account_key_file \notin CAFiles
    /\ \A c : /\ chain(c) \notin CAFiles /\ private(c) \notin CAFiles
              /\ chain(c) \notin {acme_registration_file, acme_account_key_file}
              /\ private(c) \notin {acme_registration_file, acme_account_key_file}
    /\ \A c, d : /\ chain(c) # private(d)
                 /\ chain(c) = chain(d) => c = d
                 /\ private(c) = private(d) => c = d
<1>. USE DEF CAFiles, Files, priv_key_file, pub_crt_file, pub_ssh_file, pw_file,
         acme_registration_file, acme_account_key_file, chain, private
<1>1. /\ CAFiles \subseteq Files
      /\ acme_registration_file \in Files /\ acme_account_key_file \in Files
      /\ \A c \in Certs : chain(c) \in Files /\ private(c) \in Files
  OBVIOUS
<1>2. /\ priv_key_file # pub_crt_file /\ priv_key_file # pub_ssh_file /\ priv_key_file # pw_file
      /\ pub_crt_file # pub_ssh_file /\ pub_crt_file # pw_file /\ pub_ssh_file # pw_file
      /\ acme_registration_file # acme_account_key_file
      /\ acme_registration_file \notin CAFiles /\ acme_account_key_file \notin CAFiles
  OBVIOUS
<1>3. \A c : /\ chain(c) \notin CAFiles /\ private(c) \notin CAFiles
             /\ chain(c) \notin {acme_registration_file, acme_account_key_file}
             /\ private(c) \notin {acme_registration_file, acme_account_key_file}
  OBVIOUS
<1>4. \A c, d : /\ chain(c) # private(d)
                /\ chain(c) = chain(d) => c = d
                /\ private(c) = private(d) => c = d
  OBVIOUS
<1>. QED  BY <1>1, <1>2, <1>3, <1>4

\* What is left of a list of one to four writes when the first was done.
LEMMA WritesTaken ==
    /\ \A a : Head(<<a>>) = a /\ Tail(<<a>>) = << >> /\ <<a>> # << >>
    /\ \A a, b : Head(<<a, b>>) = a /\ Tail(<<a, b>>) = <<b>> /\ <<a, b>> # << >>
    /\ \A a, b, c : /\ Head(<<a, b, c>>) = a /\ Tail(<<a, b, c>>) = <<b, c>>
                    /\ <<a, b, c>> # << >>
    /\ \A a, b, c, d : /\ Head(<<a, b, c, d>>) = a /\ Tail(<<a, b, c, d>>) = <<b, c, d>>
                       /\ <<a, b, c, d>> # << >>
<1>1. \A a : Head(<<a>>) = a /\ Tail(<<a>>) = << >> /\ <<a>> # << >>
  OBVIOUS
<1>2. \A a, b : Head(<<a, b>>) = a /\ Tail(<<a, b>>) = <<b>> /\ <<a, b>> # << >>
  OBVIOUS
<1>3. \A a, b, c : /\ Head(<<a, b, c>>) = a /\ Tail(<<a, b, c>>) = <<b, c>>
                   /\ <<a, b, c>> # << >>
  OBVIOUS
<1>4. \A a, b, c, d : /\ Head(<<a, b, c, d>>) = a /\ Tail(<<a, b, c, d>>) = <<b, c, d>>
                      /\ <<a, b, c, d>> # << >>
  OBVIOUS
<1>. QED  BY <1>1, <1>2, <1>3, <1>4
-----------------------------------------------------------------------------
\* The states a script may be in between its steps.
LEMMA InitIInv == Init => IInv
<1>. SUFFICES ASSUME Init  PROVE IInv
  OBVIOUS
<1>. USE DEF Init
<1>1. /\ file \in [Files -> Content] /\ \A f \in Files : file[f] = Absent
  BY DEF Content
<1>2. TypeOK
  <2>1. /\ keys \in Nat /\ accounts \subseteq Key
        /\ txt \in [Certs -> Nat] /\ published \in Nat /\ trusts \in [Hosts -> Nat]
        /\ order \in Nat /\ tries \in 0..2 /\ signer \in Nat
    BY DEF NoKey
  <2>0. row \in BOOLEAN
    OBVIOUS
  <2>2. delivered \in [Containers -> Pair] /\ archive \in [Containers -> Pair]
    BY DEF NoPair, Pair, Content
  <2>3. trouble \in 0..MaxTrouble /\ runs \in 0..MaxRuns
    BY BoundAssumption
  <2>4. pc \in Stages /\ writes \in Seq([file : Files, content : Key])
        /\ opened = FALSE /\ todo = {} /\ container = Nobody
    BY DEF Stages
  <2>. QED  BY <1>1, <2>0, <2>1, <2>2, <2>3, <2>4 DEF TypeOK
<1>3. Authority
  BY <1>1, FileFacts DEF Authority, Exists, CAFiles
<1>4. Trusting
  BY DEF Trusting, NoKey
<1>5. Certificates
  BY <1>1, FileFacts, ContentAssumption DEF Certificates, Ordering, Exists, Certifies, NoPair, Key
<1>6. Account /\ Quiet
  BY <1>1, FileFacts DEF Account, Quiet
<1>. QED  BY <1>2, <1>3, <1>4, <1>5, <1>6 DEF IInv
-----------------------------------------------------------------------------
\* What a script may do to the files, one step at a time.
LEMMA KeyFacts ==
    ASSUME TypeOK
    PROVE  /\ keys + 1 \in Key /\ keys + 1 \in Nat
           /\ \A k \in Key, f \in Files : To(f, k) \in [file : Files, content : Key]
           /\ << >> \in Seq([file : Files, content : Key])
           /\ \A c \in Certs : Stored(c) \in Pair
           /\ NoPair \in Pair
           /\ Key \subseteq Nat /\ Key \subseteq Content
<1>1. keys + 1 \in Key /\ keys + 1 \in Nat
  BY DEF TypeOK, Key
<1>2. \A k \in Key, f \in Files : To(f, k) \in [file : Files, content : Key]
  BY DEF To
<1>3. (\A c \in Certs : Stored(c) \in Pair) /\ NoPair \in Pair
  BY FileFacts DEF Stored, Pair, TypeOK, NoPair, Content
<1>4. Key \subseteq Nat /\ Key \subseteq Content
  BY DEF Key, Content
<1>. QED  BY <1>1, <1>2, <1>3, <1>4

LEMMA TypeFiles ==
    ASSUME TypeOK, OpenFile \/ WriteFile
    PROVE  TypeOK'
<1>1. /\ Head(writes) \in [file : Files, content : Key]
      /\ Tail(writes) \in Seq([file : Files, content : Key])
  <2>1. writes # << >> /\ writes \in Seq([file : Files, content : Key])
    BY DEF TypeOK, OpenFile, WriteFile, Writing
  <2>2. \A S : \A s \in Seq(S) : s # << >> => Head(s) \in S /\ Tail(s) \in Seq(S)
    OBVIOUS
  <2>. QED  BY <2>1, <2>2
<1>2. file' \in [Files -> Content]
  BY <1>1 DEF TypeOK, OpenFile, WriteFile, Content
<1>3. /\ writes' \in Seq([file : Files, content : Key]) /\ opened' \in BOOLEAN
      /\ opened' => Writing'
  BY <1>1 DEF TypeOK, OpenFile, WriteFile, Writing
<1>4. UNCHANGED <<world, keys, trouble, runs, pc, script>>
  BY DEF OpenFile, WriteFile
<1>. QED  BY <1>2, <1>3, <1>4 DEF TypeOK, world, script, Pair, Content

LEMMA TypeScript ==
    ASSUME TypeOK,
           \/ set_domain_Found \/ NotRefreshing \/ initialize \/ Commit
           \/ distribute_authority \/ GenerateConfigs \/ AccountFound \/ NewOrder
           \/ issue_ssh_certificate \/ TimedOutOnce
    PROVE  TypeOK'
<1>. USE KeyFacts, FileFacts, BoundAssumption
<1>1. CASE initialize
  <2>1. AuthorityWrites(keys + 1) \in Seq([file : Files, content : Key])
    BY DEF AuthorityWrites, CAFiles
  <2>2. AuthorityWrites(keys + 1) # << >>
    BY DEF AuthorityWrites
  <2>. QED  BY <1>1, <2>1, <2>2 DEF TypeOK, initialize, StartScript, Stages, world, script, Writing
<1>2. CASE set_domain_Found \/ NotRefreshing
  <2>1. /\ runs' \in 0..MaxRuns /\ pc' \in {"commit", "ready"} /\ pc = "down"
        /\ UNCHANGED <<file, writes, opened, world, keys, trouble, script>>
    BY <1>2 DEF TypeOK, set_domain_Found, NotRefreshing, StartScript, Unwritten
  <2>. QED  BY <2>1 DEF TypeOK, Stages, world, script, Writing
<1>3. CASE Commit \/ distribute_authority
  BY <1>3 DEF TypeOK, Commit, distribute_authority, Stages, script, Unwritten, Writing
<1>4. CASE GenerateConfigs \/ AccountFound \/ NewOrder
  BY <1>4 DEF TypeOK, GenerateConfigs, AccountFound, NewOrder, Stages, world, script, Unwritten, Writing
<1>5. CASE issue_ssh_certificate
  BY <1>5 DEF TypeOK, issue_ssh_certificate, Stages, world, Unwritten, Writing
<1>6. CASE TimedOutOnce
  BY <1>6 DEF TypeOK, TimedOutOnce, Stages, world, Unwritten, Writing
<1>. QED  BY <1>1, <1>2, <1>3, <1>4, <1>5, <1>6

LEMMA TypeRequest ==
    ASSUME TypeOK, NEW c \in Certs, NEW try \in 0..2, create_csr(c, try),
           container' \in Containers, trouble' \in 0..MaxTrouble, todo \subseteq Containers
    PROVE  TypeOK'
<1>. USE KeyFacts, FileFacts
<1>1. <<To(private(c), keys + 1)>> \in Seq([file : Files, content : Key])
  OBVIOUS
<1>. QED  BY <1>1 DEF TypeOK, create_csr, Stages, world, Writing

LEMMA TypeOrder ==
    ASSUME TypeOK,
           \/ \E n \in Containers : CertificateFound(n) \/ RequestCertificate(n)
           \/ RefusedOnce \/ AccountRefused \/ CreateAccount \/ PublishChallenge \/ Finalize \/ Issued,
           pc \in Ordering => order \in Key
    PROVE  TypeOK'
<1>. USE KeyFacts, FileFacts, PlacesAssumption
<1>1. ASSUME NEW n \in Containers, CertificateFound(n)  PROVE TypeOK'
  BY <1>1 DEF TypeOK, CertificateFound, Stages, world, Unwritten, Writing
<1>2. ASSUME NEW n \in Containers, RequestCertificate(n)  PROVE TypeOK'
  <2>1. /\ AliasesOf[n] \in Certs /\ create_csr(AliasesOf[n], 1) /\ 1 \in 0..2
        /\ container' \in Containers /\ trouble' \in 0..MaxTrouble /\ todo \subseteq Containers
    BY <1>2 DEF TypeOK, RequestCertificate
  <2>. QED  BY <2>1, TypeRequest
<1>3. CASE RefusedOnce \/ AccountRefused
  <2>1. container \in Containers /\ todo \subseteq Containers
    BY <1>3 DEF TypeOK, RefusedOnce, AccountRefused
  <2>2. /\ AliasesOf[container] \in Certs /\ create_csr(AliasesOf[container], 2) /\ 2 \in 0..2
        /\ container' \in Containers /\ trouble' \in 0..MaxTrouble
    BY <1>3, <2>1, BoundAssumption DEF TypeOK, RefusedOnce, AccountRefused
  <2>. QED  BY <2>1, <2>2, TypeRequest
<1>4. CASE CreateAccount
  <2>1. AccountWrites(keys + 1) \in Seq([file : Files, content : Key])
    BY DEF AccountWrites
  <2>2. AccountWrites(keys + 1) # << >>
    BY DEF AccountWrites
  <2>. QED  BY <1>4, <2>1, <2>2 DEF TypeOK, CreateAccount, Stages, script, Writing
<1>5. CASE PublishChallenge
  BY <1>5 DEF TypeOK, PublishChallenge, Stages, Unwritten, Writing
<1>6. CASE Finalize
  <2>1. <<To(chain(AliasesOf[container]), order)>> \in Seq([file : Files, content : Key])
    BY <1>6 DEF TypeOK, Finalize, Ordering
  <2>. QED  BY <1>6, <2>1 DEF TypeOK, Finalize, Stages, world, script, Writing
<1>7. CASE Issued
  BY <1>7 DEF TypeOK, Issued, Stages, world, Unwritten, Writing, NoKey
<1>. QED  BY <1>1, <1>2, <1>3, <1>4, <1>5, <1>6, <1>7

LEMMA TypeHosts ==
    ASSUME TypeOK,
           \/ \E h \in Hosts : CreateServer(h) \/ Push(h) \/ Unreached(h)
           \/ Done \/ Raise \/ Stop \/ UNCHANGED vars
    PROVE  TypeOK'
<1>. USE KeyFacts
<1>1. ASSUME NEW h \in Hosts, CreateServer(h)  PROVE TypeOK'
  BY <1>1 DEF TypeOK, CreateServer, Stages, script, Unwritten, Writing
<1>2. ASSUME NEW h \in Hosts, Push(h)  PROVE TypeOK'
  BY <1>2 DEF TypeOK, Push, Stages, Unwritten, Writing
<1>3. ASSUME NEW h \in Hosts, Unreached(h)  PROVE TypeOK'
  BY <1>3, BoundAssumption DEF TypeOK, Unreached, Stages, world, Unwritten, Writing
<1>4. CASE Done \/ Raise \/ Stop
  <2>1. trouble' \in 0..MaxTrouble
    BY <1>4, BoundAssumption DEF TypeOK, Done, Raise, Stop
  <2>2. Over
    BY <1>4 DEF Done, Raise, Stop
  <2>3. /\ archive' \in [Containers -> Pair] /\ order' \in Nat /\ signer' \in Nat
        /\ tries' \in 0..2 /\ container' = Nobody /\ todo' = {} /\ pc' = "down"
        /\ writes' = << >> /\ opened' = FALSE
    BY <2>2 DEF Over, NoKey
  <2>4. UNCHANGED <<runs, world, file, keys>>
    BY <2>2 DEF Over
  <2>. QED  BY <2>1, <2>3, <2>4 DEF TypeOK, Stages, world
<1>5. CASE UNCHANGED vars
  BY <1>5 DEF TypeOK, vars, world, script, Writing
<1>. QED  BY <1>1, <1>2, <1>3, <1>4, <1>5

LEMMA NextTypeOK ==
    ASSUME TypeOK, pc \in Ordering => order \in Key, [Next]_vars
    PROVE  TypeOK'
BY TypeFiles, TypeScript, TypeOrder, TypeHosts DEF Next, Run
-----------------------------------------------------------------------------
\* Authority: a file after the other, the password last.
LEMMA AuthorityFiles ==
    ASSUME IInv, OpenFile \/ WriteFile
    PROVE  Authority'
<1>. USE FileFacts, WritesTaken, KeyFacts, ContentAssumption
<1>. DEFINE w == Head(writes)
<1>1. /\ file \in [Files -> Content] /\ UNCHANGED <<row, pc>>
      /\ opened => Writing
  BY DEF IInv, TypeOK, OpenFile, WriteFile, world
<1>2. CASE pc # "commit"
  <2>1. \A f \in CAFiles : file'[f] = file[f]
    <3>1. w.file \notin CAFiles
      BY <1>2 DEF IInv, Quiet, Certificates, Account, AccountLeft, AccountWrites, OpenFile,
         WriteFile, TypeOK, Writing, To
    <3>. QED  BY <1>1, <3>1 DEF OpenFile, WriteFile
  <2>. QED  BY <1>1, <1>2, <2>1 DEF IInv, Authority, Whole, Exists, CAFiles
<1>3. CASE pc = "commit"
  <2>1. PICK k \in Key : CommitLeft(k)
    BY <1>3 DEF IInv, Authority, OpenFile, WriteFile, TypeOK, Writing
  <2>2. ~row /\ w.content = k /\ w.file \in CAFiles
    BY <1>3, <2>1 DEF IInv, Authority, CommitLeft, AuthorityWrites, To, CAFiles
  <2>3. CASE OpenFile
    BY <1>1, <1>3, <2>1, <2>2, <2>3 DEF Authority, OpenFile, CommitLeft, AuthorityWrites, To, Exists, Whole
  <2>4. CASE WriteFile
    <3>1. /\ file' = [file EXCEPT ![w.file] = k] /\ writes' = Tail(writes) /\ opened' = FALSE
      BY <2>2, <2>4 DEF WriteFile
    <3>2. k # Absent
      BY DEF Key
    <3>3. CASE writes = <<To(pw_file, k)>>
      <4>1. /\ writes' = << >> /\ file'[pw_file] = k
            /\ file'[priv_key_file] = k /\ file'[pub_crt_file] = k /\ file'[pub_ssh_file] = k
        BY <1>1, <2>1, <3>1, <3>3 DEF CommitLeft, AuthorityWrites, To, CAFiles
      <4>. QED  BY <1>1, <1>3, <2>2, <3>2, <4>1 DEF Authority, Exists, Whole
    <3>4. CASE writes # <<To(pw_file, k)>>
      <4>1. CommitLeft(k)' /\ writes' # << >> /\ file'[pw_file] = Absent
        <5>1. CASE writes = AuthorityWrites(k) /\ file[pw_file] = Absent
          <6>1. /\ w.file = priv_key_file
                /\ writes' = <<To(pub_crt_file, k), To(pub_ssh_file, k), To(pw_file, k)>>
            BY <3>1, <5>1 DEF AuthorityWrites, To
          <6>2. file'[priv_key_file] = k /\ file'[pw_file] = Absent
            BY <1>1, <3>1, <5>1, <6>1 DEF CAFiles
          <6>3. writes' # << >>
            BY <6>1
          <6>. QED  BY <6>1, <6>2, <6>3 DEF CommitLeft
        <5>2. CASE /\ writes = <<To(pub_crt_file, k), To(pub_ssh_file, k), To(pw_file, k)>>
                   /\ file[priv_key_file] = k /\ file[pw_file] = Absent
          <6>1. w.file = pub_crt_file /\ writes' = <<To(pub_ssh_file, k), To(pw_file, k)>>
            BY <3>1, <5>2 DEF To
          <6>. QED  BY <1>1, <3>1, <5>2, <6>1 DEF CommitLeft, CAFiles
        <5>3. CASE /\ writes = <<To(pub_ssh_file, k), To(pw_file, k)>>
                   /\ file[priv_key_file] = k /\ file[pub_crt_file] = k /\ file[pw_file] = Absent
          <6>1. w.file = pub_ssh_file /\ writes' = <<To(pw_file, k)>>
            BY <3>1, <5>3 DEF To
          <6>. QED  BY <1>1, <3>1, <5>3, <6>1 DEF CommitLeft, CAFiles
        <5>. QED  BY <2>1, <3>4, <5>1, <5>2, <5>3 DEF CommitLeft
      <4>. QED  BY <1>1, <1>3, <2>2, <4>1 DEF Authority, Exists
    <3>. QED  BY <3>3, <3>4
  <2>. QED  BY <2>3, <2>4
<1>. QED  BY <1>2, <1>3

\* No other step touches a file, and a script is past set_domain if the row is
\* committed, hence the authority there.
LEMMA AuthorityScript ==
    ASSUME IInv, [Next]_vars, ~OpenFile, ~WriteFile
    PROVE  Authority'
<1>1. ASSUME StartScript, UNCHANGED <<row, file>>,
             \/ row /\ pc' = "ready"
             \/ ~row /\ ca_is_valid /\ pc' = "commit" /\ UNCHANGED writes
      PROVE  Authority'
  BY <1>1 DEF IInv, Authority, Quiet, StartScript, ca_is_valid, CAFiles, Exists, Whole
<1>2. CASE set_domain_Found \/ NotRefreshing
  BY <1>1, <1>2 DEF set_domain_Found, NotRefreshing, Unwritten, world
<1>3. CASE initialize
  <2>1. ~Exists(pw_file)
    <3>. SUFFICES ASSUME Exists(pw_file)  PROVE ca_is_valid
      BY <1>3 DEF initialize
    <3>. QED  BY ContentAssumption DEF IInv, Authority, Whole, ca_is_valid, CAFiles, Exists, Key
  <2>2. file[pw_file] = Absent /\ keys + 1 \in Key
    BY <2>1, KeyFacts DEF Exists, IInv
  <2>3. /\ writes' = AuthorityWrites(keys + 1) /\ pc' = "commit"
        /\ UNCHANGED <<file, row>> /\ ~row
    BY <1>3 DEF initialize, StartScript, world
  <2>4. PICK k \in Key : writes' = AuthorityWrites(k)
    BY <2>2, <2>3
  <2>5. CommitLeft(k)' /\ writes' # << >>
    BY <2>2, <2>3, <2>4 DEF CommitLeft, AuthorityWrites
  <2>. QED  BY <2>1, <2>3, <2>5 DEF Authority, Exists
<1>4. CASE Commit
  BY <1>4 DEF Commit, Unwritten, IInv, Authority, Exists, Whole, Writing
<1>5. ASSUME UNCHANGED <<row, file>>,
             \/ pc' = "down"
             \/ pc \notin {"down", "commit"} /\ pc' # "commit"
             \/ UNCHANGED <<pc, writes, opened>>
      PROVE  Authority'
  BY <1>5 DEF IInv, Authority, Exists, Whole, CommitLeft
<1>6. CASE \/ distribute_authority \/ GenerateConfigs
           \/ \E h \in Hosts : CreateServer(h) \/ Push(h) \/ Unreached(h)
           \/ \E n \in Containers : CertificateFound(n)
           \/ AccountFound \/ NewOrder \/ PublishChallenge \/ Issued
           \/ issue_ssh_certificate \/ TimedOutOnce
  BY <1>5, <1>6 DEF distribute_authority, GenerateConfigs, CreateServer, Push, Unreached,
     CertificateFound, AccountFound, NewOrder, PublishChallenge, Issued,
     issue_ssh_certificate, TimedOutOnce, Unwritten, world
<1>7. CASE \/ \E n \in Containers : RequestCertificate(n)
           \/ CreateAccount \/ Finalize \/ RefusedOnce \/ AccountRefused
  BY <1>5, <1>7 DEF RequestCertificate, CreateAccount, Finalize, RefusedOnce, AccountRefused, create_csr, world
<1>8. CASE Done \/ Raise \/ Stop \/ UNCHANGED vars
  BY <1>5, <1>8 DEF Done, Raise, Stop, Over, vars, world
<1>. QED  BY <1>2, <1>3, <1>4, <1>6, <1>7, <1>8 DEF Next, Run
-----------------------------------------------------------------------------
\* Trusting: the authority's files are not touched once its row is committed.
LEMMA CommittedStays ==
    ASSUME IInv, [Next]_vars
    PROVE  /\ row => \A f \in CAFiles : file'[f] = file[f]
           /\ row' => row \/ Commit
           /\ row => row'
<1>. USE FileFacts, WritesTaken
<1>1. CASE OpenFile \/ WriteFile
  <2>1. row => Head(writes).file \notin CAFiles
    BY <1>1 DEF IInv, Quiet, Authority, Certificates, Account, AccountLeft, AccountWrites,
       OpenFile, WriteFile, TypeOK, Writing, To
  <2>. QED  BY <1>1, <2>1 DEF IInv, TypeOK, OpenFile, WriteFile, world
<1>2. CASE set_domain_Found \/ NotRefreshing \/ initialize \/ Commit
  BY <1>2 DEF set_domain_Found, NotRefreshing, initialize, Commit, StartScript, Unwritten, world
<1>3. CASE \/ distribute_authority \/ GenerateConfigs
           \/ \E h \in Hosts : CreateServer(h) \/ Push(h) \/ Unreached(h)
           \/ \E n \in Containers : CertificateFound(n)
           \/ AccountFound \/ NewOrder \/ PublishChallenge \/ Issued
           \/ issue_ssh_certificate \/ TimedOutOnce
  BY <1>3 DEF distribute_authority, GenerateConfigs, CreateServer, Push, Unreached,
     CertificateFound, AccountFound, NewOrder, PublishChallenge, Issued,
     issue_ssh_certificate, TimedOutOnce, Unwritten, world
<1>4. CASE \/ \E n \in Containers : RequestCertificate(n)
           \/ CreateAccount \/ Finalize \/ RefusedOnce \/ AccountRefused
  BY <1>4 DEF RequestCertificate, CreateAccount, Finalize, RefusedOnce, AccountRefused, create_csr, world
<1>5. CASE Done \/ Raise \/ Stop \/ UNCHANGED vars
  BY <1>5 DEF Done, Raise, Stop, Over, vars, world
<1>. QED  BY <1>1, <1>2, <1>3, <1>4, <1>5 DEF Next, Run

LEMMA NextTrusting ==
    ASSUME IInv, [Next]_vars
    PROVE  Trusting'
<1>. DEFINE ssh == file[pub_ssh_file]
            Past == pc \notin {"down", "commit", "ready"}
<1>0. /\ priv_key_file \in CAFiles /\ pub_ssh_file \in CAFiles
      /\ row => Whole /\ ssh \in Key
  BY DEF CAFiles, IInv, Authority, Whole
\* Steps that give nobody a key and do not sign.
<1>1. ASSUME UNCHANGED <<published, trusts>>,
             \/ UNCHANGED <<signer, pc>>
             \/ signer' = NoKey /\ pc' \in {"down", "commit", "ready"}
             \/ pc \notin {"down", "commit", "ready", "servers", "push"} /\ UNCHANGED signer
             \/ pc = "down" /\ UNCHANGED signer /\ pc' \in {"commit", "ready"}
             \/ pc = "commit" /\ UNCHANGED signer /\ pc' = "ready"
      PROVE  Trusting'
  BY <1>0, <1>1, CommittedStays DEF Trusting, IInv, Authority, Commit
<1>2. signer # NoKey => pc = "push"
  BY DEF IInv, Trusting
<1>3. CASE OpenFile \/ WriteFile
  BY <1>1, <1>2, <1>3 DEF OpenFile, WriteFile, world, script
<1>4. CASE set_domain_Found \/ NotRefreshing \/ initialize \/ Commit
  BY <1>1, <1>2, <1>4 DEF set_domain_Found, NotRefreshing, initialize, StartScript, Commit, world, script
<1>5. CASE distribute_authority
  <2>1. row /\ row' /\ published' = ssh /\ ssh' = ssh /\ ssh # NoKey
    BY <1>0, <1>5, CommittedStays DEF distribute_authority, IInv, Authority, Key, NoKey
  <2>. QED  BY <1>2, <1>5, <2>1 DEF distribute_authority, script, IInv, Trusting
<1>6. ASSUME NEW h \in Hosts, CreateServer(h)  PROVE Trusting'
  <2>1. row /\ row' /\ ssh' = ssh
    BY <1>0, <1>6, CommittedStays DEF CreateServer, IInv, Authority
  <2>2. trusts' = [trusts EXCEPT ![h] = published] /\ UNCHANGED <<published, signer, pc>>
        /\ pc = "servers" /\ trusts \in [Hosts -> Nat]
    BY <1>6 DEF CreateServer, script, IInv, TypeOK
  <2>. QED  BY <1>2, <2>1, <2>2 DEF IInv, Trusting
<1>7. CASE GenerateConfigs
  <2>1. row /\ row' /\ ssh' = ssh
    BY <1>0, <1>7, CommittedStays DEF GenerateConfigs, IInv, Authority
  <2>. QED  BY <1>2, <1>7, <2>1 DEF GenerateConfigs, world, IInv, Trusting
<1>8. CASE issue_ssh_certificate
  <2>1. row /\ row' /\ ssh' = ssh /\ file'[priv_key_file] = file[priv_key_file]
    BY <1>0, <1>8, CommittedStays DEF issue_ssh_certificate, IInv, Authority
  <2>. QED  BY <1>8, <2>1 DEF issue_ssh_certificate, world, IInv, Trusting
<1>9. CASE \/ \E h \in Hosts : Unreached(h)
           \/ \E n \in Containers : CertificateFound(n)
           \/ AccountFound \/ NewOrder \/ PublishChallenge \/ Issued \/ TimedOutOnce
  BY <1>1, <1>2, <1>9 DEF Unreached, CertificateFound, AccountFound, NewOrder,
     PublishChallenge, Issued, TimedOutOnce, world, script
<1>10. CASE \E h \in Hosts : Push(h)
  BY <1>1, <1>2, <1>10 DEF Push
<1>11. CASE \/ \E n \in Containers : RequestCertificate(n)
            \/ CreateAccount \/ Finalize \/ RefusedOnce \/ AccountRefused
  BY <1>1, <1>2, <1>11 DEF RequestCertificate, CreateAccount, Finalize, RefusedOnce, AccountRefused, create_csr,
     world, script
<1>12. CASE Done \/ Raise \/ Stop \/ UNCHANGED vars
  BY <1>1, <1>2, <1>12 DEF Done, Raise, Stop, Over, vars, world, script
<1>. QED
  BY <1>3, <1>4, <1>5, <1>6, <1>7, <1>8, <1>9, <1>10, <1>11, <1>12 DEF Next, Run
-----------------------------------------------------------------------------
\* Certificates: only the files of the certificate on order are written.
LEMMA CertificateFiles ==
    ASSUME IInv, OpenFile \/ WriteFile
    PROVE  Certificates'
<1>. USE FileFacts, WritesTaken, KeyFacts, ContentAssumption, PlacesAssumption
<1>. DEFINE w == Head(writes)
            f == w.file
<1>1. /\ file \in [Files -> Content] /\ UNCHANGED <<pc, container, order, archive, delivered>>
      /\ pc \in Ordering => Ordered \in Certs
  BY DEF IInv, TypeOK, OpenFile, WriteFile, world, script, Ordering, Ordered
<1>2. Writing /\ pc \in {"commit", "account", "order", "issued"}
  BY DEF IInv, Quiet, OpenFile, WriteFile, TypeOK, Writing
<1>3. CASE pc \in {"commit", "order"}
  <2>1. f \in CAFiles \cup {acme_registration_file, acme_account_key_file}
    BY <1>2, <1>3 DEF IInv, Authority, CommitLeft, AuthorityWrites, Account, AccountLeft,
       AccountWrites, Writing, To, CAFiles
  <2>2. \A c \in Certs : file'[chain(c)] = file[chain(c)] /\ file'[private(c)] = file[private(c)]
    BY <1>1, <2>1 DEF OpenFile, WriteFile
  <2>. QED  BY <1>1, <1>3, <2>2 DEF IInv, Certificates, Certifies, Ordering, Ordered, Exists
<1>4. CASE pc = "account"
  <2>1. /\ writes = <<To(private(Ordered), order)>> /\ order \in Key /\ ~Exists(chain(Ordered))
        /\ f = private(Ordered) /\ w.content = order
    BY <1>2, <1>4 DEF IInv, Certificates, Ordering, Writing, To
  <2>2. /\ \A c \in Certs : /\ file'[chain(c)] = file[chain(c)]
                            /\ c # Ordered => file'[private(c)] = file[private(c)]
        /\ file'[chain(Ordered)] = Absent
    BY <1>1, <1>4, <2>1 DEF OpenFile, WriteFile, Exists, Ordering
  <2>3. \/ writes' = writes
        \/ writes' = << >> /\ file'[private(Ordered)] = order
    BY <1>1, <1>4, <2>1 DEF OpenFile, WriteFile, Ordering
  <2>4. \A c \in Certs : Exists(chain(c))' =>
          /\ file'[private(c)] \in Key
          /\ file'[chain(c)] \in {Empty, file'[private(c)]}
    <3>. SUFFICES ASSUME NEW c \in Certs, file'[chain(c)] # Absent
                  PROVE  /\ file'[private(c)] \in Key
                         /\ file'[chain(c)] \in {Empty, file'[private(c)]}
      BY DEF Exists
    <3>1. c # Ordered
      BY <2>2
    <3>2. file[chain(c)] # Absent /\ file'[chain(c)] = file[chain(c)]
          /\ file'[private(c)] = file[private(c)]
      BY <2>2, <3>1
    <3>3. file[private(c)] \in Key /\ file[chain(c)] \in {Empty, file[private(c)]}
      BY <3>2 DEF IInv, Certificates, Exists
    <3>. QED  BY <3>2, <3>3
  <2>5. Ordered' = Ordered /\ Ordered \in Certs
    BY <1>1, <1>4 DEF Ordered, Ordering
  <2>6. ~Exists(chain(Ordered))'
    BY <2>1, <2>2, <2>5 DEF Exists
  <2>7. \/ writes' = <<To(private(Ordered), order)>>'
        \/ writes' = << >> /\ file'[private(Ordered)] = order
    BY <1>1, <2>1, <2>3, <2>5
  <2>8. \A n \in Containers : Certifies(archive[n])' /\ Certifies(delivered[n])'
    BY <1>1 DEF IInv, Certificates, Certifies
  <2>. QED
    BY <1>1, <1>4, <2>1, <2>4, <2>5, <2>6, <2>7, <2>8 DEF Certificates, Ordering
<1>5. CASE pc = "issued"
  <2>1. /\ writes = <<To(chain(Ordered), order)>> /\ order \in Key
        /\ f = chain(Ordered) /\ w.content = order /\ file[private(Ordered)] = order
        /\ file[chain(Ordered)] = IF opened THEN Empty ELSE Absent
    BY <1>2, <1>5 DEF IInv, Certificates, Ordering, Writing, To
  <2>2. /\ Ordered' = Ordered /\ Ordered \in Certs
        /\ \A c \in Certs : /\ file'[private(c)] = file[private(c)]
                            /\ c # Ordered => file'[chain(c)] = file[chain(c)]
    BY <1>1, <1>5, <2>1 DEF OpenFile, WriteFile, Ordered, Ordering
  <2>3. \/ writes' = writes /\ opened' /\ file'[chain(Ordered)] = Empty
        \/ writes' = << >> /\ file'[chain(Ordered)] = order
    BY <1>1, <1>5, <2>1, <2>2 DEF OpenFile, WriteFile
  <2>4. \A c \in Certs : Exists(chain(c))' =>
          /\ file'[private(c)] \in Key
          /\ file'[chain(c)] \in {Empty, file'[private(c)]}
    BY <2>1, <2>2, <2>3 DEF IInv, Certificates, Exists
  <2>. QED
    BY <1>1, <1>5, <2>1, <2>2, <2>3, <2>4 DEF IInv, Certificates, Certifies, Exists, Ordering
<1>. QED  BY <1>2, <1>3, <1>4, <1>5

\* A request is made for aliases that have no chain.
LEMMA CertificateRequested ==
    ASSUME IInv, NEW c \in Certs, NEW try, create_csr(c, try), Ordered' = c, ~Exists(chain(c)),
           writes = << >>
    PROVE  Certificates'
<1>. USE FileFacts, KeyFacts
<1>1. /\ pc' = "account" /\ order' \in Key /\ writes' = <<To(private(c), order')>>
      /\ UNCHANGED <<file, archive, delivered>>
  BY DEF create_csr, world, IInv
<1>. QED  BY <1>1 DEF IInv, Certificates, Ordering, Exists, Certifies

\* An order that goes on, or is over; what there is on disk stays.
LEMMA CertificateOrder ==
    ASSUME IInv, [Next]_vars, UNCHANGED file,
           \/ pc' \notin Ordering
           \/ pc \in Ordering /\ pc' = pc /\ UNCHANGED <<writes, opened>>
           \/ pc = "account" /\ pc' = "order" /\ writes = << >>
           \/ pc \in Ordering \ {"account", "issued"}
                 /\ pc' \in Ordering \ {"account", "issued"},
           pc' \in Ordering => UNCHANGED <<container, order>>,
           \A n \in Containers : Certifies(archive'[n]) /\ Certifies(delivered'[n])
    PROVE  Certificates'
<1>1. /\ \A c \in Certs : Exists(chain(c))' =>
            /\ file'[private(c)] \in Key
            /\ file'[chain(c)] \in {Empty, file'[private(c)]}
      /\ \A n \in Containers : Certifies(archive[n])' /\ Certifies(delivered[n])'
  BY DEF IInv, Certificates, Exists, Certifies
<1>2. CASE pc' \notin Ordering
  BY <1>1, <1>2 DEF Certificates, Ordering
<1>3. CASE pc \in Ordering /\ pc' \in Ordering
  <2>1. /\ Ordered' = Ordered /\ order' = order /\ order \in Key
        /\ file'[private(Ordered)] = file[private(Ordered)]
        /\ file'[chain(Ordered)] = file[chain(Ordered)]
    BY <1>3 DEF IInv, Certificates, Ordered
  <2>2. pc' \in Ordering \ {"issued"} => ~Exists(chain(Ordered))'
    BY <1>3, <2>1 DEF IInv, Certificates, Ordering, Exists
  <2>3. pc' = "account" => \/ writes' = <<To(private(Ordered), order)>>'
                           \/ writes' = << >> /\ file'[private(Ordered')] = order'
    BY <1>3, <2>1 DEF IInv, Certificates, Ordering
  <2>4. pc' \in Ordering \ {"account"} => file'[private(Ordered')] = order'
    BY <1>3, <2>1 DEF IInv, Certificates, Ordering
  <2>5. pc' = "issued" => \/ writes' = << >>
                          \/ /\ writes' = <<To(chain(Ordered), order)>>'
                             /\ file'[chain(Ordered')] = IF opened' THEN Empty ELSE Absent
    BY <1>3, <2>1 DEF IInv, Certificates, Ordering
  <2>6. /\ pc' \in Ordering => order' \in Key
        /\ pc' = "account" => \/ writes' = <<To(private(Ordered'), order')>>
                              \/ writes' = << >> /\ file'[private(Ordered')] = order'
        /\ pc' = "issued" => \/ writes' = << >>
                             \/ /\ writes' = <<To(chain(Ordered'), order')>>
                                /\ file'[chain(Ordered')] = IF opened' THEN Empty ELSE Absent
    BY <2>1, <2>3, <2>5
  <2>. QED  BY <1>1, <2>2, <2>4, <2>6 DEF Certificates
<1>. QED  BY <1>2, <1>3 DEF Ordering

LEMMA NextCertificates ==
    ASSUME IInv, [Next]_vars
    PROVE  Certificates'
<1>. USE FileFacts, KeyFacts, PlacesAssumption
<1>0. /\ \A n \in Containers : Certifies(archive[n]) /\ Certifies(delivered[n])
      /\ \A c \in Certs : Certifies(Stored(c))
      /\ archive \in [Containers -> Pair] /\ delivered \in [Containers -> Pair]
      /\ Certifies(NoPair)
  BY ContentAssumption DEF IInv, TypeOK, Certificates, Certifies, Stored, Exists, Key, NoPair
<1>1. CASE OpenFile \/ WriteFile
  BY <1>1, CertificateFiles
<1>2. CASE set_domain_Found \/ NotRefreshing \/ initialize \/ Commit
           \/ distribute_authority \/ GenerateConfigs
  BY <1>0, <1>2, CertificateOrder DEF set_domain_Found, NotRefreshing, initialize, Commit,
     distribute_authority, GenerateConfigs, StartScript, Unwritten, world, script, Ordering
<1>3. CASE AccountFound \/ NewOrder \/ TimedOutOnce
  BY <1>0, <1>3, CertificateOrder DEF AccountFound, NewOrder, TimedOutOnce, Unwritten, world,
     script, Ordering, Writing
<1>4. CASE CreateAccount \/ PublishChallenge
  BY <1>0, <1>4, CertificateOrder DEF CreateAccount, PublishChallenge, Unwritten, script,
     Ordering, Writing
<1>5. CASE issue_ssh_certificate
  BY <1>0, <1>5, CertificateOrder DEF issue_ssh_certificate, Unwritten, world, Ordering
<1>6. ASSUME NEW h \in Hosts, CreateServer(h) \/ Unreached(h)  PROVE Certificates'
  BY <1>0, <1>6, CertificateOrder DEF CreateServer, Unreached, Unwritten, world, script, Ordering
<1>7. ASSUME NEW h \in Hosts, Push(h)  PROVE Certificates'
  BY <1>0, <1>7, CertificateOrder DEF Push, Unwritten, Ordering
<1>8. ASSUME NEW n \in Containers, CertificateFound(n)  PROVE Certificates'
  BY <1>0, <1>8, CertificateOrder DEF CertificateFound, Unwritten, world, Ordering
<1>9. CASE Issued
  BY <1>0, <1>9, CertificateOrder DEF Issued, Unwritten, world, Ordering, IInv, TypeOK
<1>10. CASE Finalize
  <2>1. /\ pc = "verify" /\ pc' = "issued" /\ Ordered' = Ordered /\ order \in Key
        /\ writes' = <<To(chain(Ordered), order)>> /\ ~opened'
        /\ UNCHANGED <<file, order, archive, delivered>>
    BY <1>10 DEF Finalize, Ordered, Ordering, world, script, IInv, Certificates, Quiet, TypeOK, Writing
  <2>2. file[private(Ordered)] = order /\ file[chain(Ordered)] = Absent
    BY <2>1 DEF IInv, Certificates, Ordering, Exists
  <2>. QED  BY <1>0, <2>1, <2>2 DEF IInv, Certificates, Ordering, Exists, Certifies
<1>11. ASSUME NEW n \in Containers, RequestCertificate(n)  PROVE Certificates'
  <2>1. ~Exists(chain(AliasesOf[n]))
    BY <1>11, ContentAssumption DEF RequestCertificate, cert_is_valid, IInv, Certificates, Exists, Key
  <2>2. /\ AliasesOf[n] \in Certs /\ Ordered' = AliasesOf[n] /\ writes = << >>
        /\ create_csr(AliasesOf[n], 1)
    BY <1>11 DEF RequestCertificate, Ordered, IInv, Quiet
  <2>. QED  BY <2>1, <2>2, CertificateRequested
<1>12. CASE RefusedOnce \/ AccountRefused
  <2>1. /\ pc \in {"account", "order"} /\ writes = << >> /\ Ordered' = Ordered
        /\ create_csr(Ordered, 2)
    BY <1>12 DEF RefusedOnce, AccountRefused, Ordered, Writing
  <2>2. Ordered \in Certs /\ ~Exists(chain(Ordered))
    BY <2>1 DEF IInv, TypeOK, Certificates, Ordered, Ordering
  <2>. QED  BY <2>1, <2>2, CertificateRequested
<1>13. CASE Done \/ Raise \/ Stop
  BY <1>0, <1>13, CertificateOrder DEF Done, Raise, Stop, Over, world, Ordering
<1>14. CASE UNCHANGED vars
  <2>1. UNCHANGED <<file, pc, writes, opened, container, order, archive, delivered>>
    BY <1>14 DEF vars, world, script
  <2>. QED  BY <1>0, <2>1, CertificateOrder
<1>. QED
  BY <1>1, <1>2, <1>3, <1>4, <1>5, <1>6, <1>7, <1>8, <1>9, <1>10, <1>11, <1>12, <1>13, <1>14
  DEF Next, Run
-----------------------------------------------------------------------------
\* Account: it is stored while an order is made out to it, and at no other stage.
LEMMA NextAccount ==
    ASSUME IInv, [Next]_vars
    PROVE  Account'
<1>. USE FileFacts, WritesTaken, KeyFacts, ContentAssumption
<1>. DEFINE w == Head(writes)
            acc == acme_account_key_file
            reg == acme_registration_file
<1>0. file \in [Files -> Content] /\ accounts \subseteq Key
  BY DEF IInv, TypeOK
<1>1. ASSUME UNCHANGED <<accounts, file>>, pc' # "order" \/ writes' = << >>
      PROVE  Account'
  BY <1>1 DEF IInv, Account
<1>2. CASE OpenFile \/ WriteFile
  <2>1. UNCHANGED <<accounts, pc>> /\ Writing /\ pc \in {"commit", "account", "order", "issued"}
    BY <1>2 DEF IInv, Quiet, OpenFile, WriteFile, TypeOK, Writing, world
  <2>2. CASE pc # "order"
    <3>1. w.file \notin {acc, reg}
      BY <2>1, <2>2 DEF IInv, Authority, CommitLeft, AuthorityWrites, Certificates, Writing, To, CAFiles
    <3>2. file'[acc] = file[acc] /\ file'[reg] = file[reg]
      BY <1>0, <1>2, <3>1 DEF OpenFile, WriteFile
    <3>. QED  BY <2>1, <2>2, <3>2 DEF IInv, Account
  <2>3. CASE pc = "order"
    <3>1. PICK k \in accounts : AccountLeft(k)
      BY <2>1, <2>3 DEF IInv, Account, Writing
    <3>2. CASE writes = AccountWrites(k) /\ ~Exists(acc)
      <4>1. w.file = reg /\ w.content = k /\ writes # << >> /\ Tail(writes) = <<To(acc, k)>>
        BY <3>2 DEF AccountWrites, To
      <4>2. file'[acc] = Absent
        BY <1>0, <1>2, <3>2, <4>1 DEF OpenFile, WriteFile, Exists
      <4>3. \/ writes' = writes
            \/ writes' = <<To(acc, k)>> /\ file'[reg] = k /\ ~opened'
        BY <1>0, <1>2, <4>1 DEF OpenFile, WriteFile
      <4>4. AccountLeft(k)'
        BY <3>2, <4>2, <4>3 DEF AccountLeft, Exists
      <4>. QED  BY <2>1, <3>1, <4>2, <4>4 DEF Account
    <3>3. CASE /\ writes = <<To(acc, k)>> /\ file[reg] = k
               /\ file[acc] = IF opened THEN Empty ELSE Absent
      <4>1. w.file = acc /\ w.content = k /\ Tail(writes) = << >>
        BY <3>3 DEF To
      <4>2. file'[reg] = k
        BY <1>0, <1>2, <3>3, <4>1 DEF OpenFile, WriteFile
      <4>3. \/ writes' = writes /\ file'[acc] = Empty /\ opened'
            \/ writes' = << >> /\ file'[acc] = k
        BY <1>0, <1>2, <3>3, <4>1 DEF OpenFile, WriteFile
      <4>4. writes' = writes => AccountLeft(k)'
        BY <3>3, <4>2, <4>3 DEF AccountLeft
      <4>. QED  BY <2>1, <3>1, <4>2, <4>3, <4>4 DEF Account
    <3>. QED  BY <3>1, <3>2, <3>3 DEF AccountLeft
  <2>. QED  BY <2>2, <2>3
<1>3. CASE CreateAccount
  <2>1. /\ ~Exists(acc) /\ UNCHANGED file /\ keys + 1 \in accounts'
        /\ writes' = AccountWrites(keys + 1)
    BY <1>3 DEF CreateAccount, acme_is_valid
  <2>2. PICK k \in accounts' : writes' = AccountWrites(k)
    BY <2>1
  <2>3. AccountLeft(k)' /\ file'[acc] = Absent
    BY <2>1, <2>2 DEF AccountLeft, Exists
  <2>. QED  BY <2>3 DEF Account
<1>4. CASE set_domain_Found \/ NotRefreshing \/ initialize \/ Commit
           \/ distribute_authority \/ GenerateConfigs \/ AccountFound \/ NewOrder
           \/ issue_ssh_certificate \/ TimedOutOnce
           \/ PublishChallenge \/ Finalize \/ Issued \/ Done \/ Raise \/ Stop \/ RefusedOnce \/ AccountRefused
  <2>1. UNCHANGED <<accounts, file>>
    BY <1>4 DEF set_domain_Found, NotRefreshing, initialize, Commit, StartScript,
       distribute_authority, GenerateConfigs, AccountFound, NewOrder, issue_ssh_certificate,
       TimedOutOnce, PublishChallenge, Finalize, Issued, Done, Raise, Stop, Over,
       RefusedOnce, AccountRefused, create_csr, Unwritten, world
  <2>2. pc' # "order" \/ writes' = << >>
    BY <1>4 DEF set_domain_Found, NotRefreshing, initialize, Commit, StartScript,
       distribute_authority, GenerateConfigs, AccountFound, NewOrder, issue_ssh_certificate,
       TimedOutOnce, PublishChallenge, Finalize, Issued, Done, Raise, Stop, Over,
       RefusedOnce, AccountRefused, create_csr, Unwritten, Writing
  <2>. QED  BY <1>1, <2>1, <2>2
<1>5. ASSUME NEW h \in Hosts, CreateServer(h) \/ Push(h) \/ Unreached(h)  PROVE Account'
  BY <1>1, <1>5 DEF CreateServer, Push, Unreached, Unwritten, world
<1>6. ASSUME NEW n \in Containers, CertificateFound(n) \/ RequestCertificate(n)  PROVE Account'
  BY <1>1, <1>6 DEF CertificateFound, RequestCertificate, create_csr, Unwritten, world
<1>7. CASE UNCHANGED vars
  <2>1. UNCHANGED <<accounts, file, pc, writes, opened>>
    BY <1>7 DEF vars, world
  <2>. QED  BY <2>1 DEF IInv, Account, AccountLeft, Exists
<1>. QED  BY <1>2, <1>3, <1>4, <1>5, <1>6, <1>7 DEF Next, Run

LEMMA NextQuiet ==
    ASSUME IInv, [Next]_vars
    PROVE  Quiet'
<1>. USE DEF IInv, Quiet
<1>1. CASE OpenFile \/ WriteFile
  <2>1. writes # << >> /\ UNCHANGED pc
    BY <1>1 DEF OpenFile, WriteFile, TypeOK, Writing
  <2>. QED  BY <2>1
<1>2. CASE set_domain_Found \/ NotRefreshing \/ initialize \/ Commit
           \/ distribute_authority \/ GenerateConfigs \/ AccountFound \/ NewOrder
           \/ issue_ssh_certificate \/ TimedOutOnce
  BY <1>2 DEF set_domain_Found, NotRefreshing, initialize, Commit, StartScript,
     distribute_authority, GenerateConfigs, AccountFound, NewOrder, issue_ssh_certificate,
     TimedOutOnce, Unwritten, Writing
<1>3. CASE CreateAccount \/ PublishChallenge \/ Finalize \/ Issued \/ Done \/ Raise \/ Stop
           \/ RefusedOnce \/ AccountRefused
  BY <1>3 DEF CreateAccount, PublishChallenge, Finalize, Issued, Done, Raise, Stop, Over,
     RefusedOnce, AccountRefused, create_csr, Unwritten, Writing
<1>4. ASSUME NEW h \in Hosts, CreateServer(h) \/ Push(h) \/ Unreached(h)  PROVE Quiet'
  BY <1>4 DEF CreateServer, Push, Unreached, Unwritten
<1>5. ASSUME NEW n \in Containers, CertificateFound(n) \/ RequestCertificate(n)  PROVE Quiet'
  BY <1>5 DEF CertificateFound, RequestCertificate, create_csr, Unwritten
<1>6. CASE UNCHANGED vars
  <2>1. UNCHANGED <<pc, writes>>
    BY <1>6 DEF vars
  <2>. QED  BY <2>1
<1>. HIDE DEF IInv, Quiet
<1>. QED  BY <1>1, <1>2, <1>3, <1>4, <1>5, <1>6 DEF Next, Run
-----------------------------------------------------------------------------
LEMMA NextIInv == IInv /\ [Next]_vars => IInv'
<1>. SUFFICES ASSUME IInv, [Next]_vars  PROVE IInv'
  OBVIOUS
<1>1. TypeOK'
  BY NextTypeOK DEF IInv, Certificates
<1>2. Authority'
  BY AuthorityFiles, AuthorityScript
<1>. QED  BY <1>1, <1>2, NextTrusting, NextCertificates, NextAccount, NextQuiet DEF IInv

\* State of the script, its files and the hosts stay well formed.
THEOREM TrustTypes == Spec => []TypeOK
<1>1. IInv => TypeOK
  BY DEF IInv
<1>. QED  BY <1>1, InitIInv, NextIInv, PTL DEF Spec

\* The authority's files, when all four exist, are of one key pair, and a
\* committed domain has them (CertAuthInternal.initialize and is_valid).
THEOREM AuthorityIsOne == Spec => []AuthorityAgrees
<1>1. IInv => AuthorityAgrees
  <2>. SUFFICES ASSUME IInv  PROVE AuthorityAgrees
    OBVIOUS
  <2>1. ca_is_valid <=> Exists(pw_file)
    BY ContentAssumption DEF IInv, Authority, Whole, ca_is_valid, CAFiles, Exists, Key
  <2>. QED  BY <2>1 DEF IInv, Authority, Whole, AuthorityAgrees
<1>. QED  BY <1>1, InitIInv, NextIInv, PTL DEF Spec

\* Every server lets in who comes with a certificate that is issued now
\* (frieze_fetchkey, CertAuthInternal._issue_ssh_certificate).
THEOREM SignerIsTrusted == Spec => []HostsTrustSigner
<1>1. IInv => HostsTrustSigner
  <2>. SUFFICES ASSUME IInv, signer # NoKey, NEW h \in Hosts  PROVE trusts[h] = signer
    BY DEF HostsTrustSigner
  <2>1. pc = "push" /\ signer = file[priv_key_file] /\ trusts[h] = file[pub_ssh_file]
    BY DEF IInv, Trusting
  <2>2. Whole
    BY <2>1 DEF IInv, Authority
  <2>. QED  BY <2>1, <2>2 DEF Whole
<1>. QED  BY <1>1, InitIInv, NextIInv, PTL DEF Spec

\* A chain certifies the private key beside it, on disk, in an archive and on
\* a container (CertAuthLetsEncrypt._issue_pem_certificate).
THEOREM ChainIsForKey == Spec => []ChainCertifiesKey
<1>1. IInv => ChainCertifiesKey
  BY ContentAssumption, FileFacts DEF IInv, Certificates, ChainCertifiesKey, Certifies, Stored, Exists, Key
<1>. QED  BY <1>1, InitIInv, NextIInv, PTL DEF Spec

\* The account that is stored is known to Let's Encrypt, and the registration
\* beside it is its own (CertAuthLetsEncrypt.acme_account_key).
THEOREM AccountIsKnown == Spec => []AccountRegistered
<1>1. IInv => AccountRegistered
  BY ContentAssumption DEF IInv, Account, AccountRegistered, Key
<1>. QED  BY <1>1, InitIInv, NextIInv, PTL DEF Spec
=============================================================================
