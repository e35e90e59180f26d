---------------------------- MODULE MCProcesses -----------------------------
(***************************************************************************)
(* The instance of Processes that is checked.                              *)
(***************************************************************************)
EXTENDS Processes

AllWrappers == {"sudo", "sudo_pty", "opendoas", "doas"}

(***************************************************************************)
(* ProcTree: a leader and two more pids, each of which the system may give *)
(* to others.                                                              *)
(***************************************************************************)
TreePids == {"leader", "p1", "p2"}
TreeResumes == [s \in BOOLEAN |-> IF s THEN 0 ELSE 1]
TreeSuid == BOOLEAN

(***************************************************************************)
(* Fleet: two clusters, two hosts in one, one in the other.                *)
(***************************************************************************)
FleetHosts == {"a1", "a2", "b1"}
FleetGroupOf == [h \in FleetHosts |-> IF h = "b1" THEN "b" ELSE "a"]

(***************************************************************************)
(* Delivery                                                                *)
(***************************************************************************)
Blob(r, s) == [ref |-> r, sensitive |-> s]
Chunk(e, rs) == [elevate |-> e, reads |-> rs]

\* A tree of one file or two, and a file.
Files(n) == [r \in {"conf", "secret"} |-> IF r = "conf" THEN 1..n ELSE {1}]

\* The login user's chunk reads a tree, root's a secret file.
Blobs == [mode |-> "push", sudo |-> TRUE, needs |-> 2,
          chunks |-> <<Chunk(FALSE, {Blob("conf", FALSE)}), Chunk(TRUE, {Blob("secret", TRUE)})>>,
          tree |-> Files(2)]
\* The same blob for both, sensitive in one: refused.
Shared == [Blobs EXCEPT !.chunks = <<Chunk(FALSE, {Blob("secret", FALSE)}),
                                     Chunk(TRUE, {Blob("secret", TRUE)})>>]
\* One chunk carries its own blobs.
Single == [mode |-> "push", sudo |-> TRUE, needs |-> 4,
           chunks |-> <<Chunk(FALSE, {Blob("conf", FALSE)})>>, tree |-> Files(1)]
Bare == [Single EXCEPT !.chunks = <<Chunk(FALSE, {}), Chunk(TRUE, {})>>]
View == [Bare EXCEPT !.mode = "preview"]

\* Pushes under one plan name; the second has lost a file.
TwoPushes == <<Blobs, [Blobs EXCEPT !.tree = Files(1)]>>
Secrets == <<[Blobs EXCEPT !.tree = Files(1)], [Blobs EXCEPT !.tree = Files(1)]>>
Others == <<Shared, View, Single, [Blobs EXCEPT !.mode = "preview"],
            [Bare EXCEPT !.sudo = FALSE], View, Bare>>
Hanging == <<Blobs, View>>

\* sudo finds another gonf than the login shell.
SplitPath == [login |-> "usr", elevated |-> "local"]
SecurePath == [login |-> "local", elevated |-> "usr"]

Setting(ds, path, releases, linger) ==
    [deliveries |-> ds, path |-> path, releases |-> releases, linger |-> linger]

\* Repeated pushes of every upgrade path, the other kinds of delivery, and
\* sessions that go on after their ssh.
DeliverySettings ==
    {Setting(TwoPushes, SecurePath, 0..5, FALSE),
     Setting(Others, SplitPath, {0, 2, 4, 5}, FALSE),
     Setting(Secrets, SecurePath, {3, 5}, TRUE),
     Setting(Hanging, SecurePath, {0, 5}, TRUE)}

(***************************************************************************)
(* CrossBuild: two pushes to one platform, one to another.                 *)
(***************************************************************************)
BuildPlatform == <<"linux", "linux", "openbsd">>

(***************************************************************************)
(* SecretResolve: a secret in both stores, in the files only, and an empty *)
(* one behind the wrong foostore binary.                                   *)
(***************************************************************************)
Store(item, file, contract) ==
    [status |-> "ok", items |-> [k |-> item], contract |-> contract, dir |-> 1,
     files |-> <<[k |-> file]>>]
SecretSpellings == {"k", "/k", "../k"}
SecretCanon == [s \in SecretSpellings |-> IF s = "../k" THEN "none" ELSE "k"]
SecretStores == {Store("v", "w", TRUE), Store("absent", "w", TRUE), Store("absent", "", FALSE)}
=============================================================================
