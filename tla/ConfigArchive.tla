---------------------------- MODULE ConfigArchive ----------------------------
(* The archive a deploy pushes to a host: what intermediate_representation   *)
(* collects in a dictionary (frieze/capability/configinit.py) from the host  *)
(* and its capabilities (frieze/capability/base.py), and the order of the    *)
(* steps generate makes of it, which configinit applies on the host.         *)
(*                                                                           *)
(* A unit is a host: its capabilities in order, the containers placed on it  *)
(* and the pools on its block devices. A capability has a service, whether   *)
(* it has a package and whether that is custom, and the keys of its          *)
(* resources. Knobs and the text of files are left out: a dictionary of      *)
(* knobs is an entry, and so is a file.                                      *)
EXTENDS Naturals, Sequences, SequencesExt

\* Keys, of the whole host or of one of its containers.
OfHost(name) == <<name, "">>
PRE_COMMAND_LIST  == OfHost("pre_cmdlist")
POST_COMMAND_LIST == OfHost("post_cmdlist")
RC_CONF     == OfHost("rc.conf")
RC_LOCAL    == OfHost("rc.local")
BOOT_LOADER == OfHost("loader.conf")
SYSCTL_CONF == OfHost("sysctl.conf")
Interpreter == OfHost("/bin/sh")
jail_cmd(c) == <<"jail_cmd", c>>
fstab(c)    == <<"fstab", c>>
cfinit(c)   == <<"cfinit", c>>

CommandLists == {PRE_COMMAND_LIST, POST_COMMAND_LIST}

\* An entry of the dictionary; only lists of commands have a payload here.
Entry(key, cmds) == [key |-> key, cmds |-> cmds]
Plain(key) == Entry(key, << >>)

Map(f(_), s) == [i \in DOMAIN s |-> f(s[i])]

\* dict_merge of one entry after the other: lists are continued, knobs added and
\* files replaced where their key is already; a new key comes last.
dict_merge(entries) ==
    LET Same(e) == SelectSeq(entries, LAMBDA x : x.key = e.key)
        IsNew(i) == \A j \in 1..(i - 1) : entries[j].key # entries[i].key
        new == SelectSeq([i \in DOMAIN entries |-> i], IsNew)
    IN  Map(LAMBDA i : Entry(entries[i].key,
                             FlattenSeq(Map(LAMBDA x : x.cmds, Same(entries[i])))), new)

\* An assignment replaces a list, and leaves it where it is.
Assigned(cfg, e) ==
    IF \E i \in DOMAIN cfg : cfg[i].key = e.key
    THEN Map(LAMBDA x : IF x.key = e.key THEN e ELSE x, cfg)
    ELSE Append(cfg, e)
-----------------------------------------------------------------------------
\* generate_cfg_files: a script has the name of its interpreter for a key.
ResourceKey(resource) ==
    IF resource.script THEN Interpreter ELSE OfHost(resource.name)

Resources(cap) == Map(LAMBDA r : Plain(ResourceKey(r)), cap.resources)

\* jail: the dataset, the mounts and the configuration of every container.
jail_files(containers) ==
    FlattenSeq(Map(LAMBDA c : <<Plain(jail_cmd(c)), Plain(fstab(c)), Plain(cfinit(c))>>,
                   containers))

\* zfs: a pool on every block device, before anything is written.
zfs_files(pools) ==
    Map(LAMBDA p : Entry(PRE_COMMAND_LIST, <<<<"zpool", p>>>>), pools)

install_commands(cap) == <<<<"pkg delete", cap.service>>, <<"pkg autoremove", "">>,
                           <<"pkg install", cap.service>>, <<"rm", cap.service>>>>

gen_capability_config(cap, unit) ==
    <<Plain(RC_CONF), Plain(RC_LOCAL)>>
    \o Resources(cap)
    \o (IF cap.service = "jail" THEN jail_files(unit.containers) ELSE << >>)
    \o (IF cap.service = "zfs" THEN zfs_files(unit.pools) ELSE << >>)
    \o (IF cap.custom THEN <<Entry(POST_COMMAND_LIST, install_commands(cap))>> ELSE << >>)

install_pkgs(unit) ==
    IF \E i \in DOMAIN unit.caps : unit.caps[i].package
    THEN <<Entry(PRE_COMMAND_LIST, <<<<"pkg install", "">>>>)>>
    ELSE << >>

bectl_create   == <<"bectl create", "">>
bectl_activate == <<"bectl activate", "">>
shutdown       == <<"shutdown -r now", "">>

finishing == Entry(POST_COMMAND_LIST, <<bectl_create, bectl_activate, shutdown>>)

\* Packages, the host's name, capabilities, tunables and networking, and the
\* finishing commands.
intermediate_representation(unit) ==
    LET capabilities == FlattenSeq(Map(LAMBDA cap : gen_capability_config(cap, unit), unit.caps))
    IN  Assigned(dict_merge(install_pkgs(unit) \o <<Plain(RC_CONF)>> \o capabilities
            \o <<Plain(BOOT_LOADER), Plain(SYSCTL_CONF), Plain(RC_CONF)>>), finishing)

\* The names of the archive's files sort in the order of the dictionary; every
\* command of a list is a file of its own.
generate(cfg) ==
    FlattenSeq(Map(LAMBDA e : IF e.key \in CommandLists THEN e.cmds ELSE <<e.key>>, cfg))
=============================================================================
