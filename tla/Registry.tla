------------------------------- MODULE Registry -------------------------------
(***************************************************************************)
(* Which credential a pull uses.  Registries come from slip.toml, with a   *)
(* token or without, and from the store that `slip registry login` fills;  *)
(* the table is built again for every deploy.                              *)
(***************************************************************************)
EXTENDS Naturals, FiniteSets

CONSTANTS
  Hosts,        \* registry hosts, DockerHub among them
  DockerHub,
  Tokens        \* token of each registry of slip.toml, a function on some of Hosts

\* A registry url as typed: scheme and trailing slash do not matter, a path is
\* refused; the case of the host is not kept.
Urls == [host : Hosts, path : BOOLEAN]

NormalizeRegistryUrl(u) == IF u.path THEN {} ELSE {u.host}

\* An image reference: without a first segment that looks like a host it is
\* one of Docker Hub.  Tag and digest are stripped.
Images == [host : Hosts] \cup {<<>>}

NormalizeImageRef(img) == IF img = <<>> THEN DockerHub ELSE img.host

\* The entries of the store: hosts of the index whose password file is read;
\* an index that cannot be read or parsed counts as empty.
StoreEntries(index, pass, none) == {h \in index : pass[h] # none}

\* merged_registry_table: the store shadows slip.toml.
MergedTable(index, pass, none) ==
  LET store == StoreEntries(index, pass, none) IN
  {[url |-> h, password |-> pass[h]] : h \in store}
  \cup {[url |-> h, password |-> Tokens[h]] : h \in DOMAIN Tokens \ store}

\* resolve_registry_credential: the entry of the image's host, if any.
Resolve(img, table) == {e.password : e \in {f \in table : f.url = NormalizeImageRef(img)}}

\* handle_list_registries: what the listing says of a host, from the index and
\* slip.toml alone.
ListRegistries(index) ==
  [h \in index \cup DOMAIN Tokens |->
     IF h \in index THEN IF h \in DOMAIN Tokens THEN "toml+store" ELSE "store" ELSE "toml"]
=============================================================================
