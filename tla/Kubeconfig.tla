----------------------------- MODULE Kubeconfig -----------------------------
(***************************************************************************)
(* internal/k8s/kubeconfigimport.go: which kubeconfig files are read, and  *)
(* what a kubeconfig's contexts become: one cluster target each, with the  *)
(* credential of its user and the trust of its cluster, or nothing.        *)
(*                                                                         *)
(* A document is [clusters, users, contexts], each a sequence of records   *)
(* with a name; Junk is a file that is no kubeconfig.  An absent field is  *)
(* "" (a path: <<>>), a *-data field that is not base64 is Bad, and a path *)
(* is <<dir, file>> or, relative to the document's directory, <<file>>.    *)
(* A user also says (history) the address its secret is for.               *)
(***************************************************************************)
EXTENDS Naturals, Sequences, SequencesExt

CONSTANTS Disk,  \* contents of the files that exist: a function on paths
          Junk,  \* a document that is not a kubeconfig
          Bad    \* a field that cannot be decoded or read

-----------------------------------------------------------------------------
(* Which files.                                                             *)

\* add: the first mention of a path counts.
AddPath(paths, p) == IF p = <<>> \/ Contains(paths, p) THEN paths ELSE Append(paths, p)

\* discoverKubeconfigPathsIn: the entries of $KUBECONFIG, then the files of
\* ~/.kube by name.
Discover(env, kubeDir) == FoldLeft(AddPath, <<>>, env \o kubeDir)

-----------------------------------------------------------------------------
(* What is in them.                                                         *)

\* readFileRel.
ReadFileRel(path, baseDir) ==
  LET full == IF Len(path) = 1 THEN <<baseDir>> \o path ELSE path IN
  IF full \in DOMAIN Disk THEN Disk[full] ELSE Bad

\* resolveDataOrFile: the inline data, else the file.
ResolveDataOrFile(data, path, baseDir) ==
  IF data # "" THEN data ELSE IF path # <<>> THEN ReadFileRel(path, baseDir) ELSE ""

\* The switch of buildAuthConfig: the first credential a user has.
K8sAuth(usr) ==
  IF usr.exec # "" THEN "exec"
  ELSE IF usr.certData # "" \/ usr.certFile # <<>> THEN "client-cert"
  ELSE IF usr.token # "" \/ usr.tokenFile # <<>> THEN "token" ELSE "none"

\* Its secret; Bad if it cannot be read, is half a key pair or is not supported.
Secret(usr, baseDir) ==
  LET cert == ResolveDataOrFile(usr.certData, usr.certFile, baseDir)
      key  == ResolveDataOrFile(usr.keyData, usr.keyFile, baseDir)
  IN CASE K8sAuth(usr) = "exec"        -> usr.exec
       [] K8sAuth(usr) = "client-cert" -> IF {cert, key} \cap {"", Bad} = {} THEN key ELSE Bad
       [] K8sAuth(usr) = "token"       -> ResolveDataOrFile(usr.token, usr.tokenFile, baseDir)
       [] OTHER                        -> Bad

\* (slip) The flag is taken as it stands.
InsecureAsWritten(cl, ca) == cl.insecure

\* "insecure is operator-explicit only, and the CA wins when both are present".
Insecure(cl, ca) == cl.insecure /\ ca = ""

\* buildAuthConfig; a secret of Bad stands for the warning that skips the context.
BuildAuthConfig(cl, usr, baseDir) ==
  LET ca == ResolveDataOrFile(cl.caData, cl.caFile, baseDir) IN
  [type |-> "none", cfg |-> <<K8sAuth(usr), IF ca = Bad THEN Bad ELSE Secret(usr, baseDir), ca>>,
   gen |-> 0, given |-> usr.for, insecure |-> Insecure(cl, ca)]

Named(s, name) == {i \in DOMAIN s : s[i].name = name}

\* clustersByName, usersByName: the last entry of a name.
ByName(s, name) == s[CHOOSE i \in Named(s, name) : \A j \in Named(s, name) : j <= i]

\* A context that can be turned into a target.
Usable(doc, ctx, baseDir) ==
  /\ Named(doc.clusters, ctx.cluster) # {} /\ Named(doc.users, ctx.user) # {}
  /\ ByName(doc.clusters, ctx.cluster).server # ""
  /\ BuildAuthConfig(ByName(doc.clusters, ctx.cluster), ByName(doc.users, ctx.user), baseDir).cfg[2] # Bad

Target(doc, ctx, baseDir) ==
  LET cl == ByName(doc.clusters, ctx.cluster) IN
  [name |-> ctx.name, server |-> cl.server,
   auth |-> BuildAuthConfig(cl, ByName(doc.users, ctx.user), baseDir)]

\* ParseKubeconfig: the usable contexts, in order; the others are skipped.
ParseKubeconfig(doc, baseDir) ==
  LET ok == SelectSeq(doc.contexts, LAMBDA ctx : Usable(doc, ctx, baseDir)) IN
  [i \in DOMAIN ok |-> Target(doc, ok[i], baseDir)]

\* Import's files, one after the other: one that is missing or is no kubeconfig
\* is passed over.
ParseFiles(paths) ==
  LET docs == SelectSeq(paths, LAMBDA p : p \in DOMAIN Disk /\ Disk[p] # Junk) IN
  FlattenSeq([i \in DOMAIN docs |-> ParseKubeconfig(Disk[docs[i]], docs[i][1])])
=============================================================================
