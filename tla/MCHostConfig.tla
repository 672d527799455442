----------------------------- MODULE MCHostConfig -----------------------------
(* Instance of HostConfig: a compute host with the capabilities add_host     *)
(* gives it, and two versions; the second has another capability, a pool and *)
(* a second container, whose name is part of that of the first.              *)
EXTENDS HostConfig

File(name) == [name |-> name, script |-> FALSE]
Script(name) == [name |-> name, script |-> TRUE]
Cap(service, resources) ==
    [service |-> service, package |-> FALSE, custom |-> FALSE, resources |-> resources]
Packaged(cap) == [cap EXCEPT !.package = TRUE]

HostCaps == <<Cap("firstboot", <<File("configinit"), File("frieze_configinit")>>),
              Cap("pf", <<File("pf.conf")>>),
              Cap("zfs", << >>),
              Cap("jail", <<Script("jail-zfs-setup.sh"), File("jail.conf")>>),
              Packaged(Cap("openssh", <<File("sshd_config")>>))>>

Bird == Packaged(Cap("bird", <<File("bird.conf")>>))

TwoUnits ==
    <<[caps |-> HostCaps, containers |-> <<"web10">>, pools |-> << >>],
      [caps |-> Append(HostCaps, Bird), containers |-> <<"web1", "web10">>, pools |-> <<"data">>]>>

\* "web1" is part of "web10".
SubstringNames == [c \in {"web1", "web10"} |-> {c} \cup (IF c = "web1" THEN {"web10"} ELSE {})]
=============================================================================
