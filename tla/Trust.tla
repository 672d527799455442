-------------------------------- MODULE Trust --------------------------------
(* Whom the hosts of a domain trust, and what they prove themselves with     *)
(* (frieze/capability/server/public.py): the files of the internal authority *)
(* that set_domain initializes, the account and the orders of Let's Encrypt  *)
(* that the generation of configurations places, and the SSH certificate a   *)
(* deploy pushes with. One script runs at a time: set_domain, then deploy.   *)
(* It may stop between any two steps, also between the creation of a file    *)
(* and the writing of it, and is run again.                                  *)
(*                                                                           *)
(* Abstraction: a key pair, and what is made of it (a public key, a          *)
(* certificate, the password of the file it is in), is its number; numbers   *)
(* are never used twice. Files are opened without O_TRUNC: one that exists   *)
(* keeps its content until it is written over. A longer content leaving its  *)
(* tail behind a shorter one, the root authority, dates and the text of      *)
(* certificates are left out. The aliases a certificate is for are the       *)
(* directory it is kept in (Certificate.inferred_name).                      *)
EXTENDS Naturals, Sequences, FiniteSets

CONSTANTS
    Hosts,        \* the hosts of the domain
    Containers,   \* the containers that are visible from outside
    Certs,        \* directories of certificates, one per set of aliases
    HostOf,       \* the host a container is placed on
    AliasesOf,    \* the directory of the aliases of a container's capability
    Absent,       \* the content of a file that does not exist
    Empty,        \* the content of a file that was created and not written
    MaxTrouble,   \* bound on stops, refusals, timeouts and unreached hosts
    MaxRuns       \* bound on the scripts run

ASSUME PlacesAssumption ==
    HostOf \in [Containers -> Hosts] /\ AliasesOf \in [Containers -> Certs]
ASSUME ContentAssumption == Absent \notin Nat /\ Empty \notin Nat /\ Absent # Empty
ASSUME CertsAssumption == "internal" \notin Certs /\ "letsencrypt" \notin Certs
ASSUME BoundAssumption == MaxTrouble \in Nat /\ MaxRuns \in Nat

VARIABLES
    \* what lasts
    row,         \* the row of the domain is committed
    file,        \* the content of each file under the domain's directory
    keys,        \* key pairs generated so far, by anybody
    accounts,    \* key pairs Let's Encrypt knows as accounts
    txt,         \* the validation published for the aliases of a certificate
    published,   \* the authority's key at the provider
    trusts,      \* the authority's key each server fetched when it first booted
    delivered,   \* the chain and the private key a container was last given
    trouble,     \* how much went wrong so far
    runs,        \* how many scripts were run so far
    \* the script
    pc,          \* its stage; "down" when none runs
    writes,      \* the files it has still to write, and with what
    opened,      \* the first of them is open
    todo,        \* the containers to configure or the hosts to push to
    container,   \* the container whose certificate is on order
    order,       \* the key pair the signing request on order was made with
    tries,       \* how often it was tried
    archive,     \* the chain and private key that go to each container
    signer       \* the authority that signed the SSH certificate

world   == <<row, accounts, txt, published, trusts, delivered>>
script  == <<todo, container, order, tries, archive, signer>>
vars    == <<world, file, keys, trouble, runs, pc, writes, opened, script>>
-----------------------------------------------------------------------------
NoKey == 0          \* of a server that does not exist, a record not published
Nobody == "none"    \* no container is on order
Key == Nat \ {0}

priv_key_file == <<"internal", "ca.pem">>
pub_crt_file  == <<"internal", "ca_pub.crt">>
pub_ssh_file  == <<"internal", "ca_pub.ssh">>
pw_file       == <<"internal", "ca.pw">>
acme_registration_file == <<"letsencrypt", "registration.jwk">>
acme_account_key_file  == <<"letsencrypt", "account.jwk">>
chain(c)   == <<c, "chain.crt">>
private(c) == <<c, "private.pem">>

CAFiles == {priv_key_file, pub_crt_file, pub_ssh_file, pw_file}
Files   == CAFiles \cup {acme_registration_file, acme_account_key_file}
                   \cup {chain(c) : c \in Certs} \cup {private(c) : c \in Certs}
Content == Key \cup {Absent, Empty}
Pair    == [chain : Content, private : Content]
NoPair  == [chain |-> Absent, private |-> Absent]

Exists(f) == file[f] # Absent

ca_is_valid == \A f \in CAFiles : Exists(f)

\* A mutant: the private key is enough.
cert_is_valid_PrivateOnly(c) == Exists(private(c))

cert_is_valid(c) == Exists(chain(c)) /\ Exists(private(c))

acme_is_valid == Exists(acme_account_key_file)

Stored(c) == [chain |-> file[chain(c)], private |-> file[private(c)]]

To(f, k) == [file |-> f, content |-> k]
Writing  == writes # << >>

Init ==
    /\ row = FALSE /\ file = [f \in Files |-> Absent] /\ keys = 0
    /\ accounts = {} /\ txt = [c \in Certs |-> NoKey] /\ published = NoKey
    /\ trusts = [h \in Hosts |-> NoKey]
    /\ delivered = [n \in Containers |-> NoPair]
    /\ trouble = 0 /\ runs = 0
    /\ pc = "down" /\ writes = << >> /\ opened = FALSE /\ todo = {}
    /\ container = Nobody /\ order = NoKey /\ tries = 0
    /\ archive = [n \in Containers |-> NoPair] /\ signer = NoKey
-----------------------------------------------------------------------------
(* Writing a file is two steps: open(..., O_CREAT | O_WRONLY) and write.     *)

OpenFile ==
    /\ Writing /\ ~opened
    /\ file' = [file EXCEPT ![Head(writes).file] = IF @ = Absent THEN Empty ELSE @]
    /\ opened' = TRUE
    /\ UNCHANGED <<runs, world, keys, trouble, pc, writes, script>>

WriteFile ==
    /\ opened
    /\ file' = [file EXCEPT ![Head(writes).file] = Head(writes).content]
    /\ writes' = Tail(writes)
    /\ opened' = FALSE
    /\ UNCHANGED <<runs, world, keys, trouble, pc, script>>

Unwritten == UNCHANGED <<file, writes, opened>>
-----------------------------------------------------------------------------
(* set_domain and CertAuthInternal.initialize                                *)

StartScript ==
    /\ pc = "down" /\ runs < MaxRuns
    /\ runs' = runs + 1

\* A mutant: the password, which is what the others are useless without, first.
AuthorityWrites_PwFirst(k) ==
    <<To(pw_file, k), To(priv_key_file, k), To(pub_crt_file, k), To(pub_ssh_file, k)>>

AuthorityWrites(k) ==
    <<To(priv_key_file, k), To(pub_crt_file, k), To(pub_ssh_file, k), To(pw_file, k)>>

\* A mutant: the authority is refreshed whenever its domain is set.
set_domain_Found_Refresh ==
    /\ StartScript /\ row
    /\ keys' = keys + 1
    /\ writes' = AuthorityWrites(keys + 1)
    /\ pc' = "commit"
    /\ UNCHANGED <<world, file, trouble, opened, script>>

\* The domain is there, and set_domain only returns it.
set_domain_Found ==
    /\ StartScript /\ row
    /\ pc' = "ready"
    /\ Unwritten /\ UNCHANGED <<world, keys, trouble, script>>

\* It is not, and what an earlier call left of its authority is taken for whole.
NotRefreshing ==
    /\ StartScript /\ ~row /\ ca_is_valid
    /\ pc' = "commit"
    /\ Unwritten /\ UNCHANGED <<world, keys, trouble, script>>

initialize ==
    /\ StartScript /\ ~row /\ ~ca_is_valid
    /\ keys' = keys + 1
    /\ writes' = AuthorityWrites(keys + 1)
    /\ pc' = "commit"
    /\ UNCHANGED <<world, file, trouble, opened, script>>

\* The end of set_domain's transaction.
Commit ==
    /\ pc = "commit" /\ ~Writing
    /\ row' = TRUE
    /\ pc' = "ready"
    /\ Unwritten
    /\ UNCHANGED <<runs, accounts, txt, published, trusts, delivered, keys, trouble, script>>
-----------------------------------------------------------------------------
(* deploy, up to the hosts                                                   *)

distribute_authority ==
    /\ pc = "ready" /\ file[pub_ssh_file] \in Key
    /\ published' = file[pub_ssh_file]
    /\ pc' = "servers"
    /\ Unwritten
    /\ UNCHANGED <<runs, row, accounts, txt, trusts, delivered, keys, trouble, script>>

\* prepare_infrastructure creates a host, which fetches the key published.
CreateServer(h) ==
    /\ pc = "servers" /\ trusts[h] = NoKey
    /\ trusts' = [trusts EXCEPT ![h] = published]
    /\ Unwritten
    /\ UNCHANGED <<runs, row, accounts, txt, published, delivered, keys, trouble, pc, script>>

GenerateConfigs ==
    /\ pc = "servers" /\ \A h \in Hosts : trusts[h] # NoKey
    /\ todo' = Containers
    /\ pc' = "configs"
    /\ Unwritten
    /\ UNCHANGED <<runs, world, keys, trouble, container, order, tries, archive, signer>>
-----------------------------------------------------------------------------
(* CertAuthLetsEncrypt.issue_certificate, for a container after the other    *)

\* "Valid certificate found": it goes into the archive as it is.
CertificateFound(n) ==
    /\ pc = "configs" /\ n \in todo /\ cert_is_valid(AliasesOf[n])
    /\ archive' = [archive EXCEPT ![n] = Stored(AliasesOf[n])]
    /\ todo' = todo \ {n}
    /\ Unwritten
    /\ UNCHANGED <<runs, world, keys, trouble, pc, container, order, tries, signer>>

\* A mutant: a second request is made with a key that is not kept.
create_csr_Forgotten(c, try) ==
    /\ keys' = keys + 1
    /\ order' = keys + 1
    /\ writes' = IF try = 1 THEN <<To(private(c), keys + 1)>> ELSE << >>
    /\ tries' = try
    /\ pc' = "account"
    /\ UNCHANGED <<world, runs, file, opened, todo, archive, signer>>

\* A request for c, made with a key pair of its own that is kept beside it.
create_csr(c, try) ==
    /\ keys' = keys + 1
    /\ order' = keys + 1
    /\ writes' = <<To(private(c), keys + 1)>>
    /\ tries' = try
    /\ pc' = "account"
    /\ UNCHANGED <<world, runs, file, opened, todo, archive, signer>>

RequestCertificate(n) ==
    /\ pc = "configs" /\ n \in todo /\ ~cert_is_valid(AliasesOf[n])
    /\ container' = n
    /\ create_csr(AliasesOf[n], 1)
    /\ UNCHANGED trouble

AccountFound ==
    /\ pc = "account" /\ ~Writing /\ acme_is_valid
    /\ pc' = "order"
    /\ Unwritten /\ UNCHANGED <<runs, world, keys, trouble, script>>

\* A mutant: the key first, whose existence makes the account valid.
AccountWrites_KeyFirst(k) == <<To(acme_account_key_file, k), To(acme_registration_file, k)>>

AccountWrites(k) == <<To(acme_registration_file, k), To(acme_account_key_file, k)>>

\* acme_registration, which any request goes out with: a new account is refused
\* to who shows the registration of another.
Registered == file[acme_registration_file] \in Key

\* The authority registers a new account, and only then is it stored.
CreateAccount ==
    /\ pc = "account" /\ ~Writing /\ ~acme_is_valid /\ ~Registered
    /\ keys' = keys + 1
    /\ accounts' = accounts \cup {keys + 1}
    /\ writes' = AccountWrites(keys + 1)
    /\ pc' = "order"
    /\ UNCHANGED <<runs, row, file, txt, published, trusts, delivered, trouble, opened, script>>

\* An order is taken from an account that is known, by the registration it has.
NewOrder ==
    /\ pc = "order" /\ ~Writing
    /\ file[acme_account_key_file] \in accounts
    /\ file[acme_registration_file] = file[acme_account_key_file]
    /\ pc' = "challenge"
    /\ Unwritten /\ UNCHANGED <<runs, world, keys, trouble, script>>

\* The registration is there and the key it was made for is not: the new account
\* is refused, and the request made once more, to be refused again (Raise).
AccountRefused ==
    /\ pc = "account" /\ ~Writing /\ ~acme_is_valid /\ Registered /\ tries = 1
    /\ create_csr(AliasesOf[container], 2)
    /\ UNCHANGED <<trouble, container>>

\* A mutant: as often as it is refused.
RefusedOnce_Always ==
    /\ ~Writing /\ tries > 0 /\ trouble < MaxTrouble
    /\ \/ pc = "account" /\ ~acme_is_valid
       \/ pc = "order" /\ file[acme_account_key_file] # Empty
    /\ trouble' = trouble + 1
    /\ create_csr(AliasesOf[container], tries + 1)
    /\ UNCHANGED container

\* "work around rate limits": whatever was refused, account or order, the
\* request is made once more, for one subject more.
RefusedOnce ==
    /\ ~Writing /\ tries = 1 /\ trouble < MaxTrouble
    /\ \/ pc = "account" /\ ~acme_is_valid
       \/ pc = "order" /\ file[acme_account_key_file] # Empty
    /\ trouble' = trouble + 1
    /\ create_csr(AliasesOf[container], 2)
    /\ UNCHANGED container

\* The challenges of the order go to DNS, and are waited for.
PublishChallenge ==
    /\ pc = "challenge"
    /\ txt' = [txt EXCEPT ![AliasesOf[container]] = order]
    /\ tries' = 1
    /\ pc' = "verify"
    /\ Unwritten
    /\ UNCHANGED <<runs, row, accounts, published, trusts, delivered, keys, trouble,
                   todo, container, order, archive, signer>>

\* loop_verification: the answer to the challenges is found to be good.
Finalize ==
    /\ pc = "verify" /\ txt[AliasesOf[container]] = order
    /\ writes' = <<To(chain(AliasesOf[container]), order)>>
    /\ pc' = "issued"
    /\ UNCHANGED <<runs, world, file, opened, keys, trouble, script>>

TimedOutOnce ==
    /\ pc = "verify" /\ tries = 1 /\ trouble < MaxTrouble
    /\ tries' = 2
    /\ trouble' = trouble + 1
    /\ Unwritten
    /\ UNCHANGED <<runs, world, keys, pc, todo, container, order, archive, signer>>

Issued ==
    /\ pc = "issued" /\ ~Writing
    /\ archive' = [archive EXCEPT ![container] = Stored(AliasesOf[container])]
    /\ todo' = todo \ {container}
    /\ container' = Nobody /\ order' = NoKey /\ tries' = 0
    /\ pc' = "configs"
    /\ Unwritten /\ UNCHANGED <<runs, world, keys, trouble, signer>>
-----------------------------------------------------------------------------
(* The SSH certificate, and the push                                         *)

\* The authority's private key is opened with its password, and signs.
issue_ssh_certificate ==
    /\ pc = "configs" /\ todo = {}
    /\ file[priv_key_file] \in Key /\ file[pw_file] = file[priv_key_file]
    /\ signer' = file[priv_key_file]
    /\ todo' = Hosts
    /\ pc' = "push"
    /\ Unwritten
    /\ UNCHANGED <<runs, world, keys, trouble, container, order, tries, archive>>

\* A host lets in who comes with a certificate of the authority it trusts.
Pushed(h, n) == HostOf[n] = h /\ signer = trusts[h]

Push(h) ==
    /\ pc = "push" /\ h \in todo
    /\ delivered' = [n \in Containers |-> IF Pushed(h, n) THEN archive[n] ELSE delivered[n]]
    /\ todo' = todo \ {h}
    /\ Unwritten
    /\ UNCHANGED <<runs, row, accounts, txt, published, trusts, keys, trouble, pc,
                   container, order, tries, archive, signer>>

\* The exit status of ssh is not read.
Unreached(h) ==
    /\ pc = "push" /\ h \in todo /\ trouble < MaxTrouble
    /\ todo' = todo \ {h}
    /\ trouble' = trouble + 1
    /\ Unwritten
    /\ UNCHANGED <<runs, world, keys, pc, container, order, tries, archive, signer>>
-----------------------------------------------------------------------------
\* The script is over, whatever became of it: what it had in memory is lost.
Over ==
    /\ pc' = "down" /\ writes' = << >> /\ opened' = FALSE /\ todo' = {}
    /\ container' = Nobody /\ order' = NoKey /\ tries' = 0
    /\ archive' = [n \in Containers |-> NoPair] /\ signer' = NoKey
    /\ UNCHANGED <<runs, world, file, keys>>

Done ==
    /\ pc = "push" /\ todo = {}
    /\ Over /\ UNCHANGED trouble

\* An account key without content does not parse; a new account is refused for
\* the second time; a private key does not open without its password.
Raise ==
    /\ \/ pc = "order" /\ ~Writing /\ file[acme_account_key_file] = Empty
       \/ pc = "account" /\ ~Writing /\ ~acme_is_valid /\ Registered /\ tries = 2
       \/ pc = "configs" /\ todo = {} /\ file[pw_file] # file[priv_key_file]
    /\ Over /\ UNCHANGED trouble

\* The process is killed, or a call outside fails for good.
Stop ==
    /\ pc # "down" /\ trouble < MaxTrouble
    /\ trouble' = trouble + 1
    /\ Over

Run ==
    \/ OpenFile \/ WriteFile
    \/ set_domain_Found \/ NotRefreshing \/ initialize \/ Commit
    \/ distribute_authority \/ GenerateConfigs
    \/ \E h \in Hosts : CreateServer(h) \/ Push(h)
    \/ \E n \in Containers : CertificateFound(n) \/ RequestCertificate(n)
    \/ AccountFound \/ CreateAccount \/ AccountRefused \/ NewOrder \/ PublishChallenge \/ Finalize \/ Issued
    \/ issue_ssh_certificate \/ Done \/ Raise

Next ==
    \/ Run
    \/ RefusedOnce \/ TimedOutOnce \/ Stop
    \/ \E h \in Hosts : Unreached(h)

Spec == Init /\ [][Next]_vars

\* Scripts are run, and what they ask of others is answered.
FairSpec == Spec /\ WF_vars(Run)
-----------------------------------------------------------------------------
Stages == {"down", "commit", "ready", "servers", "configs", "account", "order",
           "challenge", "verify", "issued", "push"}

TypeOK ==
    /\ row \in BOOLEAN /\ file \in [Files -> Content] /\ keys \in Nat
    /\ accounts \subseteq Key /\ txt \in [Certs -> Nat] /\ published \in Nat
    /\ trusts \in [Hosts -> Nat] /\ delivered \in [Containers -> Pair]
    /\ trouble \in 0..MaxTrouble /\ runs \in 0..MaxRuns
    /\ pc \in Stages
    /\ writes \in Seq([file : Files, content : Key]) /\ opened \in BOOLEAN
    /\ opened => Writing
    /\ pc # "push" => todo \subseteq Containers
    /\ pc = "push" => todo \subseteq Hosts
    /\ container \in Containers \cup {Nobody}
    /\ pc \in {"account", "order", "challenge", "verify", "issued"} => container \in Containers
    /\ order \in Nat /\ tries \in 0..2
    /\ archive \in [Containers -> Pair] /\ signer \in Nat

\* "just check the existence of these files to make sure that the CA looks to be
\* in good shape" (public.py:509-510): when all four exist they are of one key
\* pair, the password at worst without content, although they are written one
\* after the other by scripts that stop and start again with another key pair;
\* and a committed domain has them all.
AuthorityAgrees ==
    /\ ca_is_valid =>
          /\ file[priv_key_file] \in Key
          /\ file[pub_crt_file] = file[priv_key_file]
          /\ file[pub_ssh_file] = file[priv_key_file]
          /\ file[pw_file] \in {file[priv_key_file], Empty}
    /\ row => ca_is_valid

\* Every server ever created, in whichever deploy, lets in who comes with a
\* certificate issued now.
HostsTrustSigner ==
    signer # NoKey => \A h \in Hosts : trusts[h] = signer

\* A chain that is on disk, in an archive or on a container certifies the
\* private key beside it: refusals, timeouts, stops and other containers of the
\* same aliases replace private keys, never one whose certificate is there.
Certifies(p) == p.chain \in Key => p.private = p.chain

ChainCertifiesKey ==
    /\ \A c \in Certs : Certifies(Stored(c))
    /\ \A n \in Containers : Certifies(archive[n]) /\ Certifies(delivered[n])

\* The account key that is stored was registered, and the registration beside it
\* is its own.
AccountRegistered ==
    file[acme_account_key_file] \in Key =>
        /\ file[acme_account_key_file] \in accounts
        /\ file[acme_registration_file] = file[acme_account_key_file]

\* What the writes leave that no later script repairs: a file whose existence is
\* taken for its content, created and not written, and a registration without
\* the key of its account, in whose name every new account is asked for.
Torn ==
    \/ file[pw_file] = Empty
    \/ file[acme_account_key_file] = Empty
    \/ Registered /\ ~acme_is_valid
    \/ \E c \in Certs : file[chain(c)] = Empty

\* Whatever is interrupted, refused or late is made up for by the scripts run
\* after it: every container is given a certificate in the end, unless the
\* process was stopped in the writes of a password, an account or a chain that
\* are never made up for.
EndsCertified ==
    \/ <>(\A n \in Containers : delivered[n].chain \in Key)
    \/ <>[]Torn
=============================================================================
