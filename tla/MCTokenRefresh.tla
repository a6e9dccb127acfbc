--------------------------- MODULE MCTokenRefresh ---------------------------
(* TLC instances of TokenRefresh: kubeconfigs that describe the name.        *)
EXTENDS TokenRefresh, TLC

Cluster(name, server, caData, insecure) ==
  [name |-> name, server |-> server, caData |-> caData, caFile |-> <<>>, insecure |-> insecure]

User(name, for) ==
  [name |-> name, exec |-> "", certData |-> "", certFile |-> <<>>, keyData |-> "", keyFile |-> <<>>,
   token |-> "", tokenFile |-> <<>>, for |-> for]

Context(name, cluster, user) == [name |-> name, cluster |-> cluster, user |-> user]

\* A document of another machine: entries in different orders, the name twice,
\* and contexts that describe nothing usable.
Config ==
  [clusters |-> <<Cluster("old", Home, "ca", TRUE), Cluster("new", Home, "", FALSE),
                  Cluster("new", NewBase, "", TRUE), Cluster("nowhere", "", "", FALSE)>>,
   users    |-> <<[User("new", NewBase) EXCEPT !.tokenFile = <<"token">>],
                  [User("old", Home) EXCEPT !.certFile = <<"cert">>, !.keyFile = <<"certs", "key">>,
                                            !.token = "ignored"],
                  [User("half", Home) EXCEPT !.certData = "cert"],
                  [User("lost", Home) EXCEPT !.tokenFile = <<"gone">>],
                  User("bare", Home)>>,
   contexts |-> <<Context(Name, "new", "half"), Context(Name, "new", "new"), Context("other", "old", "old"),
                  Context(Name, "none", "old"), Context(Name, "old", "none"), Context(Name, "nowhere", "old"),
                  Context(Name, "old", "lost"), Context(Name, "old", "bare"), Context(Name, "old", "old")>>]

\* The same cluster, its certificate now checked.
Checked ==
  [clusters |-> <<Cluster("new", NewBase, "", FALSE)>>,
   users    |-> <<[User("new", NewBase) EXCEPT !.token = "t"]>>,
   contexts |-> <<Context(Name, "new", "new")>>]

Plugin ==
  [clusters |-> <<Cluster("new", NewBase, Bad, FALSE), Cluster("old", Home, "", FALSE)>>,
   users    |-> <<[User("u", Home) EXCEPT !.exec = "plugin", !.certData = Bad]>>,
   contexts |-> <<Context(Name, "new", "u"), Context(Name, "old", "u")>>]

MCDisk ==
  (<<"kube", "config">> :> Config) @@ (<<"kube", "later">> :> Checked) @@ (<<"kube", "notes">> :> Junk)
  @@ (<<"kube", "token">> :> "t") @@ (<<"kube", "cert">> :> "cert") @@ (<<"certs", "key">> :> "key")

MCEnv     == <<<<>>, <<"kube", "config">>, <<"kube", "absent">>>>
MCKubeDir == <<<<"kube", "config">>, <<"kube", "later">>, <<"kube", "notes">>>>
MCUploads == {Plugin, Junk}

\* Of an edit, an import and a login two are combined.
Used ==
  {w \in {"edit", "import", "login"} :
     CASE w = "edit"   -> \E e \in Editors : editor[e].at # "new"
       [] w = "import" -> importer.at # "new"
       [] w = "login"  -> login.at # "new"}
Bound == Cardinality(Used) <= 2

Symmetry == Permutations(Calls)
=============================================================================
