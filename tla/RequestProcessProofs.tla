------------------------- MODULE RequestProcessProofs -------------------------
(***************************************************************************)
(* Proofs about RequestProcess, for every file system, every set of        *)
(* requests and whatever other programs do.  `Inv` ties what the server is *)
(* about to do to the request it does it for, and says that the files form *)
(* a tree and that an answer has no length before it has its body.         *)
(***************************************************************************)
EXTENDS RequestProcess, TLAPS

Posting  == {"POST", "upload", "uploadInto", "modify"}
Deleting == {"DELETE", "remove"}
Getting  == {"GET", "index", "file", "listing"}
Working  == Posting \cup Deleting \cup Getting \cup {"script", "redirect"}

Refusals == {404, 405, 411, 500} \cup ReaderErrors
Heads    == [req : Requests \cup {Nothing}, status : {0} \cup Refusals, kind : Kinds]

WellTyped ==
    /\ fs \in [Paths -> Nodes] /\ now \in 1 .. Len(Stamps) /\ depth \in Nat
    /\ head \in [Clients -> Heads]
    /\ pc \in Working \cup {"loop", "error", "sent", "killed"}
    /\ pc # "loop" => who \in Clients

\* A head that was not refused is that of a request.
HeadsRead ==
    \A c \in Clients : head[c].status = 0 /\ head[c] # NoRequest => head[c].req \in Requests

\* What the server is about to do is what the request asks for, at its path.
AsAsked ==
    /\ pc \in Working => req \in Requests
    /\ pc \in Posting => req.method = "POST"
    /\ pc \in Deleting => req.method = "DELETE"
    /\ pc \in Getting => req.method = "GET"
    /\ pc = "script" => req.method # "DELETE"
    /\ pc \in (Posting \cup Deleting \cup {"GET"}) => path = req.path

\* Until it is sent an answer has no length, and nothing else before it is an error's.
\* Only pages that cannot be read make an error of an error.
Unsent ==
    /\ pc \in Working \cup {"loop"} => hdr = NoHeaders /\ depth = 0
    /\ pc = "error" =>
          /\ "Content-Length" \notin DOMAIN hdr /\ status \notin {0, 200, 201, 204}
          /\ depth > 0 => status = 500
    /\ depth > 1 => 500 \in DOMAIN Pages

Inv == WellTyped /\ IsTree(fs) /\ HeadsRead /\ AsAsked /\ Unsent /\ Framed

-------------------------------------------------------------------------------
(* Paths and trees                                                             *)

LEMMA PrefixFacts ==
    ASSUME NEW p \in Paths, NEW n \in 0 .. Len(p)
    PROVE  /\ SubSeq(p, 1, n) \in Seq(Names) /\ Len(SubSeq(p, 1, n)) = n
           /\ \A i \in 1 .. n : SubSeq(p, 1, n)[i] = p[i]
<1>1. p \in Seq(Names)
  BY PathsAssumption
<1>. QED  BY <1>1

\* What is above a path is shorter, and what is above that is above the path too.
LEMMA AboveFacts ==
    ASSUME NEW p \in Paths
    PROVE  /\ AllAbove(p) \subseteq Paths /\ p \notin AllAbove(p)
           /\ \A d \in AllAbove(p) : AllAbove(d) \subseteq AllAbove(p)
<1>1. p \in Seq(Names) /\ AllAbove(p) \subseteq Paths
  BY PathsAssumption
<1>2. p \notin AllAbove(p)
  BY <1>1, PrefixFacts DEF AllAbove
<1>3. ASSUME NEW n \in 0 .. (Len(p) - 1), NEW m \in 0 .. (n - 1)
      PROVE  SubSeq(SubSeq(p, 1, n), 1, m) = SubSeq(p, 1, m)
  <2>. DEFINE d == SubSeq(p, 1, n)
  <2>1. d \in Paths /\ Len(d) = n /\ \A i \in 1 .. n : d[i] = p[i]
    <3>1. n \in 0 .. Len(p) /\ d \in AllAbove(p)
      BY <1>1 DEF AllAbove
    <3>2. Len(d) = n /\ \A i \in 1 .. n : d[i] = p[i]
      BY <3>1, PrefixFacts
    <3>. QED  BY <1>1, <3>1, <3>2
  <2>. HIDE DEF d
  <2>2. SubSeq(d, 1, m) \in Seq(Names) /\ SubSeq(p, 1, m) \in Seq(Names)
        /\ Len(SubSeq(d, 1, m)) = m /\ Len(SubSeq(p, 1, m)) = m
        /\ \A i \in 1 .. m : SubSeq(d, 1, m)[i] = SubSeq(p, 1, m)[i]
    BY <1>1, <2>1, PrefixFacts
  <2>3. SubSeq(d, 1, m) = SubSeq(p, 1, m)
    BY <2>2
  <2>. QED  BY <2>3 DEF d
<1>4. ASSUME NEW d \in AllAbove(p), NEW c \in AllAbove(d)
      PROVE  c \in AllAbove(p)
  <2>1. PICK n \in 0 .. (Len(p) - 1) : d = SubSeq(p, 1, n)
    BY DEF AllAbove
  <2>2. Len(d) = n /\ Len(p) \in Nat
    BY <1>1, <2>1, PrefixFacts
  <2>3. PICK m \in 0 .. (n - 1) : c = SubSeq(d, 1, m)
    BY <2>2 DEF AllAbove
  <2>4. c = SubSeq(p, 1, m) /\ m \in 0 .. (Len(p) - 1)
    BY <1>3, <2>1, <2>2, <2>3
  <2>. QED  BY <2>4 DEF AllAbove
<1>. QED  BY <1>1, <1>2, <1>4

\* What is above a path is its directory and what is above that.
LEMMA ParentFacts ==
    ASSUME NEW p \in Paths, NEW d \in AllAbove(p)
    PROVE  Above(p) \in AllAbove(p) /\ (d = Above(p) \/ d \in AllAbove(Above(p)))
<1>1. p \in Seq(Names)
  BY PathsAssumption
<1>2. PICK n \in 0 .. (Len(p) - 1) : d = SubSeq(p, 1, n)
  BY DEF AllAbove
<1>3. Len(p) - 1 \in 0 .. (Len(p) - 1)
  BY <1>1, <1>2
<1>4. Above(p) \in AllAbove(p)
  BY <1>3 DEF Above, AllAbove
<1>5. CASE n = Len(p) - 1
  BY <1>2, <1>4, <1>5 DEF Above
<1>6. CASE n # Len(p) - 1
  <2>. DEFINE a == Above(p)
  <2>1. a \in Paths /\ Len(a) = Len(p) - 1 /\ \A i \in 1 .. Len(a) : a[i] = p[i]
    <3>1. Len(p) - 1 \in 0 .. Len(p) /\ a = SubSeq(p, 1, Len(p) - 1)
      BY <1>1, <1>3 DEF Above
    <3>. HIDE DEF a
    <3>2. Len(a) = Len(p) - 1 /\ \A i \in 1 .. (Len(p) - 1) : a[i] = p[i]
      BY <3>1, PrefixFacts
    <3>3. a \in Paths
      BY <1>4, AboveFacts DEF a
    <3>. QED  BY <3>2, <3>3
  <2>. HIDE DEF a
  <2>2. n \in 0 .. (Len(a) - 1) /\ n \in 0 .. Len(p) /\ n \in 0 .. Len(a)
    BY <1>1, <1>2, <1>6, <2>1
  <2>3. /\ SubSeq(a, 1, n) \in Seq(Names) /\ Len(SubSeq(a, 1, n)) = n
        /\ SubSeq(p, 1, n) \in Seq(Names) /\ Len(SubSeq(p, 1, n)) = n
    BY <2>1, <2>2, PrefixFacts
  <2>4. \A i \in 1 .. n : SubSeq(a, 1, n)[i] = SubSeq(p, 1, n)[i]
    BY <2>1, <2>2, PrefixFacts
  <2>5. SubSeq(a, 1, n) = d
    BY <1>2, <2>3, <2>4
  <2>6. d \in AllAbove(a)
    BY <2>2, <2>5 DEF AllAbove
  <2>. QED  BY <1>4, <2>6 DEF a
<1>. QED  BY <1>5, <1>6

-------------------------------------------------------------------------------
(* Answers                                                                     *)

\* The files are still a tree.
Filed == fs' \in [Paths -> Nodes] /\ IsTree(fs') /\ now' = now

LEMMA UnchangedFiled ==
    ASSUME Inv, UNCHANGED <<fs, now>>
    PROVE  Filed
  BY DEF Filed, Inv, WellTyped, IsTree

\* addNewPair().
LEMMA AddFacts ==
    ASSUME NEW h, NEW key, NEW value
    PROVE  /\ DOMAIN Add(h, key, value) = DOMAIN h \cup {key}
           /\ key \notin DOMAIN h => Add(h, key, value)[key] = value
           /\ \A k \in DOMAIN h : Add(h, key, value)[k] = h[k]
  BY DEF Add

LEMMA ContentFacts ==
    ASSUME NEW h, NEW b, "Content-Length" \notin DOMAIN h
    PROVE  "Content-Length" \in DOMAIN Content(h, b) /\ Content(h, b)["Content-Length"] = b
  BY AddFacts DEF Content

LEMMA PagesFacts ==
    ASSUME NEW s \in DOMAIN Pages
    PROVE  s \in DOMAIN site.pages
  BY DEF Pages

LEMMA WorkingIs ==
    Working = {"POST", "upload", "uploadInto", "modify", "DELETE", "remove", "GET", "index",
               "file", "listing", "script", "redirect"}
  BY DEF Working, Posting, Deleting, Getting

\* An answer may be sent when it is framed.
LEMMA ReplyKeeps ==
    ASSUME Inv, pc \in Working \cup {"error"}, Filed, NEW s, NEW h, NEW b, Reply(s, h, b),
           s = 204 \/ ("Content-Length" \in DOMAIN h /\ h["Content-Length"] = b)
    PROVE  Inv'
<1>1. /\ pc' = "sent" /\ status' = s /\ hdr' = h /\ body' = b
      /\ UNCHANGED <<who, path, depth, head>> /\ pc # "loop"
  BY WorkingIs DEF Reply
<1>2. "sent" \notin Working
  BY WorkingIs
<1>3. WellTyped'
  BY <1>1 DEF Inv, WellTyped, Filed
<1>4. HeadsRead' /\ AsAsked'
  BY <1>1, <1>2 DEF Inv, HeadsRead, AsAsked, Working
<1>5. Unsent' /\ Framed'
  <2>1. Pages' = Pages /\ site' = site
    BY <1>1 DEF Pages, req, site
  <2>2. (depth > 1)' => 500 \in DOMAIN Pages
    BY <1>1 DEF Inv, Unsent
  <2>. QED  BY <1>1, <1>2, <2>1, <2>2, PagesFacts DEF Unsent, Framed
<1>. QED  BY <1>3, <1>4, <1>5 DEF Inv, Filed

\* An error is begun with a status that is not one of success.
LEMMA ErrorKeeps ==
    ASSUME Inv, pc \in Working, Filed, NEW s, s \notin {0, 200, 201, 204}, Error(s)
    PROVE  Inv'
<1>1. pc' = "error" /\ status' = s /\ UNCHANGED <<who, path, hdr, body, depth, head>>
      /\ pc # "loop" /\ hdr = NoHeaders /\ depth = 0
  BY WorkingIs DEF Error, Inv, Unsent
<1>2. "error" \notin Working
  BY WorkingIs
<1>3. WellTyped'
  BY <1>1 DEF Inv, WellTyped, Filed
<1>4. HeadsRead' /\ AsAsked'
  BY <1>1, <1>2 DEF Inv, HeadsRead, AsAsked, Working
<1>5. Unsent' /\ Framed'
  BY <1>1, <1>2 DEF Unsent, Framed, NoHeaders
<1>. QED  BY <1>3, <1>4, <1>5 DEF Inv, Filed

\* The next call for the same request.
LEMMA GotoKeeps ==
    ASSUME Inv, pc \in Working, Filed, NEW label \in Working, NEW p, NEW s, Goto(label, p, s),
           label \in Posting => pc \in Posting,
           label \in Deleting => pc \in Deleting,
           label \in Getting => pc \in Getting,
           label # "GET",
           label = "script" => req.method # "DELETE",
           label \in (Posting \cup Deleting) => p = req.path
    PROVE  Inv'
<1>1. pc' = label /\ path' = p /\ UNCHANGED <<who, hdr, body, depth, head>> /\ pc # "loop"
  BY WorkingIs DEF Goto
<1>2. label \notin {"loop", "error", "sent"}
  BY WorkingIs
<1>3. req' = req /\ Pages' = Pages /\ site' = site
  BY <1>1 DEF req, Pages, site
<1>4. WellTyped'
  BY <1>1 DEF Inv, WellTyped, Filed
<1>5. HeadsRead'
  BY <1>1 DEF Inv, HeadsRead
<1>6. AsAsked'
  BY <1>1, <1>3 DEF Inv, AsAsked
<1>7. Unsent' /\ Framed'
  BY <1>1, <1>2, <1>3 DEF Inv, Unsent, Framed
<1>. QED  BY <1>4, <1>5, <1>6, <1>7 DEF Inv, Filed

\* A file or a page could not be read.
LEMMA ServerErrorKeeps ==
    ASSUME Inv, pc \in Working \cup {"error"}, UNCHANGED <<fs, now>>, NEW h, ServerError500(h),
           "Content-Length" \notin DOMAIN h, pc = "error" => status \in DOMAIN Pages
    PROVE  Inv'
<1>1. /\ pc' = "error" /\ status' = 500 /\ depth' = depth + 1 /\ hdr' = h
      /\ UNCHANGED <<who, path, head>> /\ pc # "loop" /\ depth \in Nat
  BY WorkingIs DEF ServerError500, Inv, WellTyped
<1>2. "error" \notin Working
  BY WorkingIs
<1>3. Filed
  BY UnchangedFiled
<1>4. WellTyped'
  BY <1>1, <1>3 DEF Inv, WellTyped, Filed
<1>5. HeadsRead' /\ AsAsked'
  BY <1>1, <1>2 DEF Inv, HeadsRead, AsAsked, Working
<1>6. Pages' = Pages /\ site' = site
  BY <1>1 DEF Pages, req, site
<1>7. depth' > 1 => 500 \in DOMAIN Pages
  <2>. SUFFICES ASSUME depth' > 1  PROVE 500 \in DOMAIN Pages
    OBVIOUS
  <2>1. depth > 0
    BY <1>1
  <2>2. pc = "error"
    BY <2>1 DEF Inv, Unsent
  <2>. QED  BY <2>1, <2>2 DEF Inv, Unsent
<1>8. Unsent' /\ Framed'
  BY <1>1, <1>2, <1>6, <1>7, PagesFacts DEF Unsent, Framed
<1>. QED  BY <1>3, <1>4, <1>5, <1>8 DEF Inv, Filed

-------------------------------------------------------------------------------
(* Files                                                                       *)

LEMMA NodeFacts ==
    ASSUME NEW kind \in Kinds, NEW b \in Contents \cup {Nothing}
    PROVE  Node(kind, b) \in Nodes /\ Node(kind, b).kind = kind /\ Node(kind, b).body = b
  BY DEF Node, Nodes

LEMMA BodyReplaced ==
    ASSUME NEW x \in Nodes, NEW b \in Contents
    PROVE  LET y == [x EXCEPT !.body = b]
           IN  y \in Nodes /\ y.kind = x.kind /\ y.body = b
  BY DEF Nodes

\* What an upload may write to is a path.
LEMMA TargetFacts ==
    ASSUME Inv, pc \in {"upload", "uploadInto"}
    PROVE  /\ Target \in Paths /\ req.body \in Contents
           /\ \E q \in {req.path, Append(req.path, Stamp)} : Target = WithType(req, q)
<1>1. req \in Requests /\ req.method = "POST" /\ path = req.path /\ now \in DOMAIN Stamps
  BY PathsAssumption DEF Inv, AsAsked, Posting, Working, WellTyped
<1>. DEFINE q == IF NewName THEN Append(path, Stamp) ELSE path
<1>2. q \in {req.path, Append(req.path, Stamp)} /\ Target = WithType(req, q)
  BY <1>1 DEF Target
<1>3. WithType(req, q) \in Targets(req)
  <2>1. q \in {req.path} \cup {Append(req.path, Stamps[t]) : t \in DOMAIN Stamps}
    BY <1>1 DEF Stamp
  <2>. HIDE DEF q
  <2>. QED  BY <2>1 DEF Targets
<1>4. req.body \in Contents
  BY <1>1 DEF Contents
<1>. QED  BY <1>1, <1>2, <1>3, <1>4, PathsAssumption

\* CreateDirRecurs() makes directories where nothing was.
LEMMA DirsMade ==
    ASSUME Inv, NEW p \in Paths, CanMake(p)
    PROVE  LET tree == WithDirs(p)
           IN  /\ tree \in [Paths -> Nodes] /\ IsTree(tree)
               /\ \A d \in AllAbove(p) : tree[d].kind = "dir"
               /\ \A q \in Paths : fs[q].kind # "none" => tree[q] = fs[q]
<1>. DEFINE tree == WithDirs(p)
<1>1. fs \in [Paths -> Nodes] /\ IsTree(fs)
  BY DEF Inv, WellTyped
<1>2. Node("dir", Nothing) \in Nodes /\ Node("dir", Nothing).kind = "dir"
  BY NodeFacts DEF Kinds
<1>3. ASSUME NEW q \in Paths
      PROVE  tree[q] = IF q \in Missing(p) THEN Node("dir", Nothing) ELSE fs[q]
  BY DEF WithDirs
<1>4. tree \in [Paths -> Nodes]
  BY <1>1, <1>2 DEF WithDirs
<1>5. \A d \in AllAbove(p) : tree[d].kind = "dir"
  BY <1>2, <1>3, AboveFacts DEF Missing
<1>6. \A q \in Paths : fs[q].kind # "none" => tree[q] = fs[q]
  BY <1>3 DEF CanMake, Exists
<1>. HIDE DEF tree
<1>7. IsTree(tree)
  <2>. SUFFICES ASSUME NEW q \in Paths, tree[q].kind # "none", NEW d \in AllAbove(q)
                PROVE  tree[d].kind = "dir"
    BY DEF IsTree
  <2>1. d \in Paths
    BY AboveFacts
  <2>2. CASE q \in Missing(p)
    <3>1. q \in AllAbove(p)
      BY <2>2 DEF Missing
    <3>2. d \in AllAbove(p)
      BY <3>1, AboveFacts
    <3>. QED  BY <3>2, <1>5
  <2>3. CASE q \notin Missing(p)
    <3>1. fs[d].kind = "dir"
      BY <1>1, <1>3, <2>3 DEF IsTree
    <3>. QED  BY <3>1, <2>1, <1>6
  <2>. QED  BY <2>2, <2>3
<1>. QED  BY <1>4, <1>5, <1>6, <1>7 DEF tree

\* std::ofstream makes a file in a directory that is there, or changes one.
LEMMA FileWritten ==
    ASSUME NEW tree \in [Paths -> Nodes], IsTree(tree), NEW p \in Paths, NEW b \in Contents,
           CanOpen(tree, p)
    PROVE  LET new == Written(tree, p, b)
           IN  /\ new \in [Paths -> Nodes] /\ IsTree(new)
               /\ new[p].kind = "file" /\ new[p].body = b
               /\ \A d \in AllAbove(p) : new[d].kind = "dir"
               /\ \A q \in Paths : q # p => new[q] = tree[q]
<1>. DEFINE x   == IF tree[p].kind = "none" THEN Node("file", b) ELSE [tree[p] EXCEPT !.body = b]
            new == Written(tree, p, b)
<1>1. x \in Nodes /\ x.kind = "file" /\ x.body = b
  <2>1. CASE tree[p].kind = "none"
    BY <2>1, NodeFacts DEF Kinds
  <2>2. CASE tree[p].kind # "none"
    <3>1. tree[p].kind = "file" /\ tree[p] \in Nodes
      BY <2>2 DEF CanOpen
    <3>. QED  BY <2>2, <3>1, BodyReplaced
  <2>. QED  BY <2>1, <2>2
<1>2. new = [tree EXCEPT ![p] = x]
  BY DEF Written
<1>. HIDE DEF x
<1>3. new \in [Paths -> Nodes] /\ new[p] = x /\ \A q \in Paths : q # p => new[q] = tree[q]
  BY <1>1, <1>2
<1>. HIDE DEF new
<1>4. \A d \in AllAbove(p) : tree[d].kind = "dir"
  <2>1. CASE tree[p].kind = "none"
    <3>. SUFFICES ASSUME NEW d \in AllAbove(p)  PROVE tree[d].kind = "dir"
      OBVIOUS
    <3>1. Above(p) \in Paths /\ (d = Above(p) \/ d \in AllAbove(Above(p)))
      BY ParentFacts, AboveFacts
    <3>2. tree[Above(p)].kind = "dir"
      BY <2>1 DEF CanOpen
    <3>. QED  BY <3>1, <3>2 DEF IsTree
  <2>2. CASE tree[p].kind # "none"
    BY <2>2 DEF IsTree
  <2>. QED  BY <2>1, <2>2
<1>5. \A d \in AllAbove(p) : new[d].kind = "dir"
  BY <1>3, <1>4, AboveFacts
<1>6. IsTree(new)
  <2>. SUFFICES ASSUME NEW q \in Paths, new[q].kind # "none", NEW d \in AllAbove(q)
                PROVE  new[d].kind = "dir"
    BY DEF IsTree
  <2>1. CASE q = p
    BY <1>5, <2>1
  <2>2. CASE q # p
    <3>1. d \in Paths /\ tree[d].kind = "dir"
      BY <1>3, <2>2, AboveFacts DEF IsTree
    <3>2. d # p
      BY <3>1 DEF CanOpen
    <3>. QED  BY <3>1, <3>2, <1>3
  <2>. QED  BY <2>1, <2>2
<1>. QED  BY <1>1, <1>3, <1>5, <1>6 DEF new

\* What has nothing below it may be removed or replaced, where a directory is above it.
LEMMA LeafReplaced ==
    ASSUME Inv, NEW p \in Paths, NEW x \in Nodes,
           x.kind # "dir" => Empty(p),
           x.kind # "none" => \A d \in AllAbove(p) : fs[d].kind = "dir"
    PROVE  LET new == [fs EXCEPT ![p] = x]
           IN  new \in [Paths -> Nodes] /\ IsTree(new) /\ new[p] = x
<1>. DEFINE new == [fs EXCEPT ![p] = x]
<1>1. fs \in [Paths -> Nodes] /\ IsTree(fs)
  BY DEF Inv, WellTyped
<1>2. new \in [Paths -> Nodes] /\ new[p] = x /\ \A q \in Paths : q # p => new[q] = fs[q]
  BY <1>1
<1>. HIDE DEF new
<1>3. IsTree(new)
  <2>. SUFFICES ASSUME NEW q \in Paths, new[q].kind # "none", NEW d \in AllAbove(q)
                PROVE  new[d].kind = "dir"
    BY DEF IsTree
  <2>1. d \in Paths /\ fs[d].kind = "dir"
    <3>1. CASE q = p
      BY <1>2, <3>1, AboveFacts
    <3>2. CASE q # p
      BY <1>1, <1>2, <3>2, AboveFacts DEF IsTree
    <3>. QED  BY <3>1, <3>2
  <2>2. CASE d = p
    <3>1. q # p
      BY <2>2, AboveFacts
    <3>2. Exists(q)
      BY <1>2, <3>1 DEF Exists
    <3>3. x.kind = "dir"
      BY <2>2, <3>2 DEF Empty
    <3>. QED  BY <1>2, <2>2, <3>3
  <2>. QED  BY <1>2, <2>1, <2>2
<1>. QED  BY <1>2, <1>3 DEF new

-------------------------------------------------------------------------------
(* One lemma per group of actions                                              *)

LEMMA ResetKeeps ==
    ASSUME Inv, ResetClient
    PROVE  Inv'
<1>1. /\ pc' = "loop" /\ hdr' = NoHeaders /\ depth' = 0 /\ who \in Clients
      /\ head' = [head EXCEPT ![who] = NoRequest] /\ UNCHANGED <<fs, now>>
  BY DEF ResetClient, Inv, WellTyped
<1>2. "loop" \notin Working
  BY WorkingIs
<1>3. NoRequest \in Heads
  BY DEF NoRequest, Heads, Kinds
<1>4. head' \in [Clients -> Heads] /\ HeadsRead'
  BY <1>1, <1>3 DEF Inv, WellTyped, HeadsRead
<1>5. WellTyped' /\ AsAsked' /\ Unsent' /\ Framed'
  BY <1>1, <1>2, <1>4 DEF Inv, WellTyped, AsAsked, Unsent, Framed, Working
<1>. QED  BY <1>4, <1>5, <1>1, UnchangedFiled DEF Inv, Filed

\* GenerateErrorResponse() adds no length before it has a body.
LEMMA ErrorHeadersFacts ==
    ASSUME "Content-Length" \notin DOMAIN hdr
    PROVE  "Content-Length" \notin DOMAIN ErrorHeaders
<1>1. \/ ErrorHeaders = hdr
      \/ ErrorHeaders = Add(hdr, "Allow", site.methods)
      \/ ErrorHeaders = Add(hdr, "Connection", "close")
      \/ ErrorHeaders = Add(hdr, "Accept", "types")
  BY DEF ErrorHeaders
<1>2. ASSUME NEW key, NEW value, key # "Content-Length"
      PROVE  "Content-Length" \notin DOMAIN Add(hdr, key, value)
  BY <1>2 DEF Add
<1>. QED  BY <1>1, <1>2

LEMMA ErrorPageKeeps ==
    ASSUME Inv, ErrorPage
    PROVE  Inv'
<1>1. pc = "error" /\ UNCHANGED <<fs, now>> /\ Filed
  BY UnchangedFiled DEF ErrorPage
<1>2. "Content-Length" \notin DOMAIN ErrorHeaders
  BY <1>1, ErrorHeadersFacts DEF Inv, Unsent
<1>3. CASE status \notin DOMAIN Pages
  <2>1. Reply(status, Content(ErrorHeaders, "page"), "page")
    BY <1>3 DEF ErrorPage
  <2>. QED  BY <1>1, <1>2, <2>1, ContentFacts, ReplyKeeps
<1>4. CASE status \in DOMAIN Pages
  <2>. DEFINE b == fs[Pages[status]].body
  <2>1. Reply(status, Content(ErrorHeaders, b), b) \/ ServerError500(ErrorHeaders)
    BY <1>4 DEF ErrorPage
  <2>. HIDE DEF b
  <2>2. CASE Reply(status, Content(ErrorHeaders, b), b)
    BY <1>1, <1>2, <2>2, ContentFacts, ReplyKeeps
  <2>3. CASE ServerError500(ErrorHeaders)
    BY <1>1, <1>2, <1>4, <2>3, ServerErrorKeeps
  <2>. QED  BY <2>1, <2>2, <2>3
<1>. QED  BY <1>3, <1>4

\* The end of the server, and steps that change only the clock.
LEMMA KilledKeeps ==
    ASSUME Inv, StackOverflow \/ LocationThrows
    PROVE  Inv'
<1>1. pc' = "killed" /\ UNCHANGED <<fs, now, head, who, path, status, hdr, body, depth>>
      /\ pc # "loop"
  BY DEF StackOverflow, LocationThrows
<1>2. "killed" \notin Working
  BY WorkingIs
<1>3. Pages' = Pages /\ site' = site
  BY <1>1 DEF Pages, req, site
<1>4. WellTyped' /\ HeadsRead' /\ AsAsked' /\ Unsent' /\ Framed'
  BY <1>1, <1>2, <1>3 DEF Inv, WellTyped, HeadsRead, AsAsked, Unsent, Framed, Working
<1>. QED  BY <1>1, <1>4, UnchangedFiled DEF Inv, Filed

LEMMA ElsewhereKeeps ==
    ASSUME Inv, fs' \in [Paths -> Nodes], IsTree(fs'), now' \in 1 .. Len(Stamps),
           UNCHANGED <<head, work>>
    PROVE  Inv'
<1>1. UNCHANGED <<head, pc, who, path, status, hdr, body, depth>>
  BY DEF work
<1>2. Pages' = Pages /\ site' = site /\ req' = req
  BY <1>1 DEF Pages, req, site
<1>3. WellTyped' /\ HeadsRead' /\ AsAsked' /\ Unsent' /\ Framed'
  BY <1>1, <1>2 DEF Inv, WellTyped, HeadsRead, AsAsked, Unsent, Framed
<1>. QED  BY <1>3 DEF Inv

LEMMA OutsideKeeps ==
    ASSUME Inv, Outside \/ Tick \/ UNCHANGED vars
    PROVE  Inv'
<1>1. fs \in [Paths -> Nodes] /\ IsTree(fs) /\ now \in 1 .. Len(Stamps)
  BY DEF Inv, WellTyped
<1>2. CASE Outside
  <2>1. PICK x \in Changes :
          /\ x[2].kind # "none" => \A d \in AllAbove(x[1]) : fs[d].kind = "dir"
          /\ x[2].kind # "dir" => Empty(x[1])
          /\ fs' = [fs EXCEPT ![x[1]] = x[2]]
    BY <1>2 DEF Outside
  <2>2. x[1] \in Paths /\ x[2] \in Nodes
    BY FilesAssumption
  <2>3. fs' \in [Paths -> Nodes] /\ IsTree(fs')
    BY <2>1, <2>2, LeafReplaced
  <2>. QED  BY <1>1, <1>2, <2>3, ElsewhereKeeps DEF Outside
<1>3. CASE Tick
  BY <1>1, <1>3, PathsAssumption, ElsewhereKeeps DEF Tick
<1>4. CASE UNCHANGED vars
  BY <1>1, <1>4, ElsewhereKeeps DEF vars
<1>. QED  BY <1>2, <1>3, <1>4

LEMMA ReadKeeps ==
    ASSUME Inv, NEW c \in Clients, NEW q \in Requests \cup {Nothing}, NEW s \in {0} \cup Refusals,
           NEW kind \in Kinds, s = 0 => q \in Requests, Read(c, q, s, kind)
    PROVE  Inv'
<1>. DEFINE h == [req |-> q, status |-> s, kind |-> kind]
<1>1. /\ pc = "loop" /\ head' = [head EXCEPT ![c] = h] /\ UNCHANGED <<fs, now>>
      /\ UNCHANGED <<pc, who, path, status, hdr, body, depth>> /\ depth = 0
  BY DEF Read, work, Inv, Unsent
<1>2. h \in Heads /\ h.status = s /\ h.req = q
  BY DEF Heads
<1>. HIDE DEF h
<1>3. head' \in [Clients -> Heads] /\ HeadsRead'
  BY <1>1, <1>2 DEF Inv, WellTyped, HeadsRead
<1>4. "loop" \notin Working
  BY WorkingIs
<1>5. WellTyped' /\ AsAsked' /\ Unsent' /\ Framed'
  BY <1>1, <1>3, <1>4 DEF Inv, WellTyped, AsAsked, Unsent, Framed, Working
<1>. QED  BY <1>1, <1>3, <1>5, UnchangedFiled DEF Inv, Filed

LEMMA HeadKeeps ==
    ASSUME Inv, NEW c \in Clients, HeadRead(c) \/ HeadRefused(c)
    PROVE  Inv'
<1>1. CASE HeadRefused(c)
  <2>1. PICK s \in ReaderErrors : Read(c, Nothing, s, "none")
    BY <1>1 DEF HeadRefused
  <2>2. s # 0 /\ s \in {0} \cup Refusals /\ Nothing \in Requests \cup {Nothing}
        /\ "none" \in Kinds
    BY StatusAssumption DEF Refusals, Kinds
  <2>. QED  BY <2>1, <2>2, ReadKeeps
<1>2. CASE HeadRead(c)
  <2>1. PICK q \in Wants[c] :
          \/ \E s \in {405, 0, 411, 404, 500} : Read(c, q, s, "none")
          \/ Read(c, q, 0, KindOf(q))
    BY <1>2 DEF HeadRead
  <2>2. q \in Requests
    BY DEF Requests
  <2>3. KindOf(q) \in Kinds
    <3>1. fs[q.path] \in Nodes
      BY <2>2, RequestAssumption DEF Inv, WellTyped
    <3>. QED  BY <3>1 DEF KindOf, Nodes, Kinds
  <2>. QED  BY <2>1, <2>2, <2>3, ReadKeeps DEF Refusals, Kinds
<1>. QED  BY <1>1, <1>2

\* The request whose turn it is.
LEMMA ProcessKeeps ==
    ASSUME Inv, NEW c \in Clients, ProcessRequest(c)
    PROVE  Inv'
<1>1. PICK s \in {head[c].status} \cup IF head[c].status = 0 THEN ReaderErrors ELSE {} :
        IF s # 0 THEN pc' = "error" /\ status' = s
        ELSE IF head[c].req.site.redirect # 0 THEN pc' = "redirect" /\ status' = 0
        ELSE pc' = head[c].req.method /\ status' = 0
  BY DEF ProcessRequest
<1>2. /\ pc = "loop" /\ head[c] # NoRequest /\ who' = c
      /\ path' = (IF head[c].req = Nothing THEN <<>> ELSE head[c].req.path)
      /\ UNCHANGED <<fs, now, head, hdr, body, depth>> /\ hdr = NoHeaders /\ depth = 0
  BY DEF ProcessRequest, Inv, Unsent
<1>3. Filed
  BY <1>2, UnchangedFiled
<1>4. HeadsRead' /\ head[c] \in Heads
  BY <1>2 DEF Inv, WellTyped, HeadsRead
<1>5. req' = head[c].req
  BY <1>2 DEF req
<1>6. Framed' /\ "loop" \notin Working /\ "error" \notin Working
  <2>1. pc' # "sent"
    <3>1. CASE s # 0
      BY <1>1, <3>1
    <3>2. CASE s = 0
      <4>1. head[c].req \in Requests
        BY <1>2, <1>1, <3>2, StatusAssumption DEF Inv, HeadsRead
      <4>2. head[c].req.method \in Methods
        BY <4>1, RequestAssumption
      <4>. QED  BY <1>1, <3>2, <4>2 DEF Methods
    <3>. QED  BY <3>1, <3>2
  <2>. QED  BY <1>2, <2>1, WorkingIs DEF Framed
<1>7. CASE s # 0
  <2>1. pc' = "error" /\ status' = s /\ s \in Refusals
    BY <1>1, <1>4, <1>7 DEF Heads, Refusals
  <2>2. status' \notin {0, 200, 201, 204}
    BY <2>1, StatusAssumption DEF Refusals
  <2>3. WellTyped'
    BY <1>2, <1>3, <2>1 DEF Inv, WellTyped, Filed
  <2>4. AsAsked' /\ Unsent'
    BY <1>2, <1>6, <2>1, <2>2 DEF AsAsked, Unsent, NoHeaders, Working
  <2>. QED  BY <1>3, <1>4, <1>6, <2>3, <2>4 DEF Inv, Filed
<1>8. CASE s = 0
  <2>1. head[c].req \in Requests
    BY <1>1, <1>2, <1>8, StatusAssumption DEF Inv, HeadsRead
  <2>2. pc' = "redirect" \/ pc' = head[c].req.method
    BY <1>1, <1>8
  <2>3. head[c].req.method \in {"GET", "POST", "DELETE"}
    BY <2>1, RequestAssumption DEF Methods
  <2>4. pc' \in {"redirect", "GET", "POST", "DELETE"}
    BY <2>2, <2>3
  <2>5. WellTyped'
    BY <1>2, <1>3, <2>4, WorkingIs DEF Inv, WellTyped, Filed
  <2>6. AsAsked'
    <3>1. pc' \in Posting => head[c].req.method = "POST"
      BY <2>2, <2>4 DEF Posting
    <3>2. pc' \in Deleting => head[c].req.method = "DELETE"
      BY <2>2, <2>4 DEF Deleting
    <3>3. pc' \in Getting => head[c].req.method = "GET"
      BY <2>2, <2>4 DEF Getting
    <3>4. path' = head[c].req.path \/ head[c].req = Nothing
      BY <1>2
    <3>5. head[c].req # Nothing /\ pc' # "script"
      BY <2>1, <2>4, RequestAssumption
    <3>. QED  BY <1>5, <2>1, <3>1, <3>2, <3>3, <3>4, <3>5 DEF AsAsked
  <2>7. Unsent'
    BY <1>2, <2>4 DEF Unsent
  <2>. QED  BY <1>3, <1>4, <1>6, <2>5, <2>6, <2>7 DEF Inv, Filed
<1>. QED  BY <1>7, <1>8

\* The answers that need no file to be written.
LEMMA SentKeeps ==
    ASSUME Inv, Redirect \/ SendFile \/ SendListing \/ Script
    PROVE  Inv'
<1>1. pc \in Working /\ UNCHANGED <<fs, now>>
  BY WorkingIs DEF Redirect, SendFile, SendListing, Script
<1>2. Filed /\ hdr = NoHeaders /\ "Content-Length" \notin DOMAIN hdr
  BY <1>1, UnchangedFiled DEF Inv, Unsent, NoHeaders
<1>3. pc # "error"
  BY <1>1, WorkingIs
<1>4. CASE Redirect
  <2>. DEFINE h == Add(hdr, "Location", site.target)
  <2>1. Reply(site.redirect, Content(h, "moved"), "moved") /\ "Content-Length" \notin DOMAIN h
    BY <1>2, <1>4 DEF Redirect, NoHeaders, Add
  <2>. HIDE DEF h
  <2>. QED  BY <1>1, <1>2, <2>1, ContentFacts, ReplyKeeps
<1>5. CASE SendFile
  <2>. DEFINE b == fs[path].body
  <2>1. Reply(200, Content(hdr, b), b) \/ ServerError500(hdr)
    BY <1>5 DEF SendFile
  <2>. HIDE DEF b
  <2>2. CASE Reply(200, Content(hdr, b), b)
    BY <1>1, <1>2, <2>2, ContentFacts, ReplyKeeps
  <2>3. CASE ServerError500(hdr)
    BY <1>1, <1>2, <1>3, <2>3, ServerErrorKeeps
  <2>. QED  BY <2>1, <2>2, <2>3
<1>6. CASE SendListing
  <2>1. Reply(200, Content(hdr, "listing"), "listing") \/ ServerError500(hdr)
    BY <1>6 DEF SendListing
  <2>. QED  BY <1>1, <1>2, <1>3, <2>1, ContentFacts, ReplyKeeps, ServerErrorKeeps
<1>7. CASE Script
  <2>1. CASE \E s \in {200, 201} : Reply(s, ScriptHeaders(s, path), "output")
    <3>1. PICK s \in {200, 201} : Reply(s, ScriptHeaders(s, path), "output")
      BY <2>1
    <3>. DEFINE h == IF s = 201 THEN Add(hdr, "Location", path) ELSE hdr
    <3>2. "Content-Length" \notin DOMAIN h
      BY <1>2 DEF NoHeaders, Add
    <3>3. ScriptHeaders(s, path) = Content(h, "output")
      BY DEF ScriptHeaders, Content
    <3>. HIDE DEF h
    <3>. QED  BY <1>1, <1>2, <3>1, <3>2, <3>3, ContentFacts, ReplyKeeps
  <2>2. CASE Reply(204, ScriptHeaders(204, path), Nothing)
    BY <1>1, <1>2, <2>2, ReplyKeeps
  <2>3. CASE \E s \in {500, 504} : Error(s)
    BY <1>1, <1>2, <2>3, ErrorKeeps
  <2>. QED  BY <1>7, <2>1, <2>2, <2>3 DEF Script
<1>. QED  BY <1>4, <1>5, <1>6, <1>7

\* The calls that only decide what comes next.
LEMMA DecisionKeeps ==
    ASSUME Inv, GetFile \/ GetListing \/ GetIndex \/ Index \/ Refuse \/ Post \/ Delete
    PROVE  Inv'
<1>1. pc \in Working /\ UNCHANGED <<fs, now>> /\ req \in Requests
  BY WorkingIs DEF GetFile, GetListing, GetIndex, Index, Refuse, Post, Delete, Inv, AsAsked
<1>2. Filed
  BY <1>1, UnchangedFiled
<1>3. CASE \E s \in {403, 404, 405, 415} : Error(s)
  BY <1>1, <1>2, <1>3, ErrorKeeps
<1>4. CASE GetFile \/ GetListing \/ GetIndex \/ Index \/ Refuse
  <2>1. CASE \E s \in {403, 404, 405, 415} : Error(s)
    BY <1>3, <2>1
  <2>2. CASE \E label \in {"script", "file", "listing", "index"} : \E p, s :
               Goto(label, p, s) /\ pc \in Getting
    <3>1. PICK label \in {"script", "file", "listing", "index"} :
            \E p, s : Goto(label, p, s) /\ pc \in Getting
      BY <2>2
    <3>2. req.method = "GET"
      BY <3>1 DEF Inv, AsAsked
    <3>3. label \notin Posting /\ label \notin Deleting /\ label # "GET" /\ label \in Working
      BY WorkingIs DEF Posting, Deleting
    <3>. QED  BY <1>1, <1>2, <3>1, <3>2, <3>3, GotoKeeps
  <2>. QED
    BY <1>4, <2>1, <2>2 DEF GetFile, GetListing, GetIndex, Index, Refuse, Getting
<1>5. CASE Post
  <2>1. pc = "POST" /\ req.method = "POST" /\ path = req.path
    BY <1>5 DEF Post, Inv, AsAsked, Posting
  <2>2. KindOf(req) \in {"none", "file", "dir", "other"}
    <3>1. fs[req.path] \in Nodes
      BY <1>1, RequestAssumption DEF Inv, WellTyped
    <3>. QED  BY <3>1 DEF KindOf, Nodes, Kinds
  <2>3. \/ \E s \in {403, 404, 405, 415} : Error(s)
        \/ \E label \in {"uploadInto", "script", "modify", "upload"} : Goto(label, path, 0)
    <3>1. CASE ~req.supported
      BY <1>5, <3>1 DEF Post
    <3>2. CASE req.supported /\ KindOf(req) = "none"
      BY <1>5, <3>2 DEF Post
    <3>3. CASE req.supported /\ KindOf(req) = "file"
      BY <1>5, <3>3 DEF Post
    <3>4. CASE req.supported /\ KindOf(req) = "dir"
      BY <1>5, <3>4 DEF Post
    <3>5. CASE req.supported /\ KindOf(req) = "other"
      BY <1>5, <3>5 DEF Post
    <3>. QED  BY <2>2, <3>1, <3>2, <3>3, <3>4, <3>5
  <2>4. ASSUME NEW label \in {"uploadInto", "script", "modify", "upload"}, Goto(label, path, 0)
        PROVE  Inv'
    <3>1. label \in Working /\ label \notin Deleting /\ label \notin Getting /\ label # "GET"
          /\ pc \in Posting
      BY <2>1, WorkingIs DEF Deleting, Getting, Posting
    <3>. QED  BY <1>1, <1>2, <2>1, <2>4, <3>1, GotoKeeps
  <2>. QED  BY <1>3, <2>3, <2>4
<1>6. CASE Delete
  <2>1. pc = "DELETE" /\ path = req.path
    BY <1>6 DEF Delete, Inv, AsAsked, Deleting
  <2>2. (\E s \in {403, 404, 405, 415} : Error(s)) \/ Goto("remove", path, 0)
    BY <1>6 DEF Delete
  <2>3. CASE Goto("remove", path, 0)
    <3>1. "remove" \in Working /\ "remove" \notin Posting /\ "remove" \notin Getting
          /\ pc \in Deleting
      BY <2>1, WorkingIs DEF Deleting, Getting, Posting
    <3>. QED  BY <1>1, <1>2, <2>1, <2>3, <3>1, GotoKeeps
  <2>. QED  BY <1>3, <2>2, <2>3
<1>. QED  BY <1>4, <1>5, <1>6

\* What the writing actions do to the files.
LEMMA WrittenFiles ==
    ASSUME Inv, Upload \/ UploadFails \/ Modify \/ ModifyFails \/ Remove
    PROVE  /\ Filed /\ req \in Requests
           /\ \A p \in Paths : fs[p].kind = "file" /\ fs'[p] # fs[p] =>
                 \E q \in {req.path, Append(req.path, Stamp)} : p \in {q, WithType(req, q)}
           /\ Upload => /\ fs'[Target].kind = "file" /\ fs'[Target].body = req.body
                        /\ \A d \in AllAbove(Target) : fs'[d].kind = "dir"
           /\ Modify => /\ fs'[path].kind = "file" /\ fs'[path].body = req.body
                        /\ \A d \in AllAbove(path) : fs'[d].kind = "dir"
<1>1. fs \in [Paths -> Nodes] /\ IsTree(fs) /\ now' = now
  BY DEF Inv, WellTyped, Upload, UploadFails, Modify, ModifyFails, Remove
<1>2. pc \in {"upload", "uploadInto", "modify", "remove"}
  BY DEF Upload, UploadFails, Modify, ModifyFails, Remove
<1>3. req \in Requests /\ path = req.path /\ path \in Paths /\ req.body \in Contents
      /\ "part" \in Contents
  BY <1>2, WorkingIs, RequestAssumption
  DEF Inv, AsAsked, Posting, Deleting, Contents, Made
<1>4. CASE Upload \/ UploadFails
  <2>. DEFINE T == Target
  <2>1. /\ T \in Paths
        /\ \E q \in {req.path, Append(req.path, Stamp)} : T = WithType(req, q)
    BY <1>4, TargetFacts DEF Upload, UploadFails
  <2>2. PICK b \in Contents :
          /\ Upload => b = req.body /\ CanMake(T) /\ CanOpen(WithDirs(T), T)
          /\ fs' = (IF ~CanMake(T) THEN fs
                    ELSE IF ~CanOpen(WithDirs(T), T) THEN WithDirs(T)
                    ELSE Written(WithDirs(T), T, b))
    BY <1>3, <1>4 DEF Upload, UploadFails
  <2>. HIDE DEF T
  <2>3. CASE ~CanMake(T)
    BY <1>1, <1>3, <1>4, <2>2, <2>3 DEF Filed, Upload, UploadFails, Modify
  <2>4. CASE CanMake(T) /\ ~CanOpen(WithDirs(T), T)
    <3>1. fs' = WithDirs(T) /\ ~Upload
      BY <2>2, <2>4
    <3>2. fs' \in [Paths -> Nodes] /\ IsTree(fs')
          /\ \A q \in Paths : fs[q].kind # "none" => fs'[q] = fs[q]
      BY <2>1, <2>4, <3>1, DirsMade
    <3>. QED  BY <1>1, <1>3, <1>4, <3>1, <3>2 DEF Filed, Upload, UploadFails, Modify
  <2>5. CASE CanMake(T) /\ CanOpen(WithDirs(T), T)
    <3>. DEFINE tree == WithDirs(T)
    <3>1. /\ tree \in [Paths -> Nodes] /\ IsTree(tree)
          /\ \A q \in Paths : fs[q].kind # "none" => tree[q] = fs[q]
      BY <2>1, <2>5, DirsMade
    <3>2. fs' = Written(tree, T, b) /\ CanOpen(tree, T)
      BY <2>2, <2>5
    <3>. HIDE DEF tree
    <3>3. /\ fs' \in [Paths -> Nodes] /\ IsTree(fs') /\ fs'[T].kind = "file" /\ fs'[T].body = b
          /\ \A d \in AllAbove(T) : fs'[d].kind = "dir"
          /\ \A q \in Paths : q # T => fs'[q] = tree[q]
      BY <2>1, <3>1, <3>2, FileWritten
    <3>4. ASSUME NEW p \in Paths, fs[p].kind = "file", fs'[p] # fs[p]
          PROVE  \E q \in {req.path, Append(req.path, Stamp)} : p \in {q, WithType(req, q)}
      <4>1. p = T
        BY <3>1, <3>3, <3>4
      <4>. QED  BY <2>1, <4>1
    <3>. QED  BY <1>1, <1>3, <1>4, <2>2, <3>3, <3>4 DEF Filed, Upload, UploadFails, Modify, T
  <2>. QED  BY <2>3, <2>4, <2>5
<1>5. CASE Modify \/ ModifyFails
  <2>1. ~Upload
    BY <1>5 DEF Upload, Modify, ModifyFails
  <2>2. PICK b \in Contents :
          /\ Modify => b = req.body /\ CanOpen(fs, path)
          /\ fs' = IF CanOpen(fs, path) THEN Written(fs, path, b) ELSE fs
    BY <1>3, <1>5 DEF Modify, ModifyFails
  <2>3. CASE CanOpen(fs, path)
    <3>1. /\ fs' \in [Paths -> Nodes] /\ IsTree(fs')
          /\ fs'[path].kind = "file" /\ fs'[path].body = b
          /\ \A d \in AllAbove(path) : fs'[d].kind = "dir"
          /\ \A q \in Paths : q # path => fs'[q] = fs[q]
      BY <1>1, <1>3, <2>2, <2>3, FileWritten
    <3>. QED  BY <1>1, <1>3, <2>1, <2>2, <3>1 DEF Filed
  <2>4. CASE ~CanOpen(fs, path)
    BY <1>1, <1>3, <2>1, <2>2, <2>4 DEF Filed
  <2>. QED  BY <2>3, <2>4
<1>6. CASE Remove
  <2>1. ~Upload /\ ~Modify
    BY <1>6 DEF Upload, Modify, Remove
  <2>2. CASE ~Removable(path)
    BY <1>1, <1>3, <1>6, <2>1, <2>2 DEF Filed, Remove
  <2>3. CASE Removable(path)
    <3>1. fs' = [fs EXCEPT ![path] = Absent] /\ Empty(path)
      BY <1>6, <2>3 DEF Remove, Removable
    <3>2. Absent \in Nodes /\ Absent.kind = "none"
      BY DEF Absent, Nodes, Kinds
    <3>3. fs' \in [Paths -> Nodes] /\ IsTree(fs')
      BY <1>3, <3>1, <3>2, LeafReplaced
    <3>4. \A q \in Paths : q # path => fs'[q] = fs[q]
      BY <1>1, <3>1
    <3>. QED  BY <1>1, <1>3, <2>1, <3>3, <3>4 DEF Filed
  <2>. QED  BY <2>2, <2>3
<1>. QED  BY <1>4, <1>5, <1>6

LEMMA PostHeadersFacts ==
    ASSUME Inv, pc \in Posting, NEW p
    PROVE  /\ "Content-Length" \in DOMAIN PostHeaders(p)
           /\ PostHeaders(p)["Content-Length"] = "page" /\ PostHeaders(p)["Location"] = p
<1>1. hdr = NoHeaders
  BY DEF Inv, Unsent, Working
<1>. DEFINE g == Add(hdr, "Allow", site.methods)
            h == Add(g, "Location", p)
<1>2. DOMAIN g = {"Allow"}
  BY <1>1 DEF NoHeaders, Add
<1>. HIDE DEF g
<1>3. DOMAIN h = {"Allow", "Location"} /\ h["Location"] = p
  BY <1>2 DEF Add
<1>4. PostHeaders(p) = Content(h, "page")
  BY DEF PostHeaders, g
<1>. HIDE DEF h
<1>5. Content(h, "page")["Location"] = h["Location"]
  BY <1>3 DEF Content, Add
<1>. QED  BY <1>3, <1>4, <1>5, ContentFacts

LEMMA WritingKeeps ==
    ASSUME Inv, Upload \/ UploadFails \/ Modify \/ ModifyFails \/ Remove
    PROVE  Inv'
<1>1. Filed
  BY WrittenFiles
<1>2. pc \in Working
  BY WorkingIs DEF Upload, UploadFails, Modify, ModifyFails, Remove
<1>3. CASE Upload
  <2>. DEFINE T == Target
  <2>1. pc \in Posting /\ Reply(201, PostHeaders(T), "page")
    BY <1>3 DEF Upload, Posting
  <2>. HIDE DEF T
  <2>. QED  BY <1>1, <1>2, <2>1, PostHeadersFacts, ReplyKeeps
<1>4. CASE Modify
  <2>1. pc \in Posting /\ Reply(200, PostHeaders(path), "page")
    BY <1>4 DEF Modify, Posting
  <2>. QED  BY <1>1, <1>2, <2>1, PostHeadersFacts, ReplyKeeps
<1>5. CASE UploadFails \/ ModifyFails \/ Remove
  <2>1. Error(500) \/ Reply(204, hdr, Nothing)
    BY <1>5 DEF UploadFails, ModifyFails, Remove
  <2>. QED  BY <1>1, <1>2, <2>1, ErrorKeeps, ReplyKeeps
<1>. QED  BY <1>3, <1>4, <1>5

-------------------------------------------------------------------------------
(* The theorems                                                                *)

THEOREM InitInv == Init => Inv
<1>. SUFFICES ASSUME Init  PROVE Inv
  OBVIOUS
<1>1. "loop" \notin Working
  BY WorkingIs
<1>2. NoRequest \in Heads
  BY DEF NoRequest, Heads, Kinds
<1>3. WellTyped
  BY <1>2, FilesAssumption, PathsAssumption DEF Init, WellTyped
<1>4. IsTree(fs) /\ HeadsRead
  BY FilesAssumption DEF Init, HeadsRead, IsTree
<1>5. AsAsked /\ Unsent /\ Framed
  BY <1>1 DEF Init, AsAsked, Unsent, Framed, Working
<1>. QED  BY <1>3, <1>4, <1>5 DEF Inv

THEOREM NextInv == Inv /\ [Next]_vars => Inv'
<1>. SUFFICES ASSUME Inv, [Next]_vars  PROVE Inv'
  OBVIOUS
<1>1. CASE \E c \in Clients : ProcessRequest(c)
  BY <1>1, ProcessKeeps
<1>2. CASE ResetClient
  BY <1>2, ResetKeeps
<1>3. CASE ErrorPage
  BY <1>3, ErrorPageKeeps
<1>4. CASE StackOverflow \/ LocationThrows
  BY <1>4, KilledKeeps
<1>5. CASE Redirect \/ SendFile \/ SendListing \/ Script
  BY <1>5, SentKeeps
<1>6. CASE GetFile \/ GetListing \/ GetIndex \/ Index \/ Refuse \/ Post \/ Delete
  BY <1>6, DecisionKeeps
<1>7. CASE Upload \/ UploadFails \/ Modify \/ ModifyFails \/ Remove
  BY <1>7, WritingKeeps
<1>8. CASE \E c \in Clients : HeadRead(c) \/ HeadRefused(c)
  BY <1>8, HeadKeeps
<1>9. CASE Outside \/ Tick \/ UNCHANGED vars
  BY <1>9, OutsideKeeps
<1>. QED  BY <1>1, <1>2, <1>3, <1>4, <1>5, <1>6, <1>7, <1>8, <1>9 DEF Next, Server

\* What the server does is what was asked for, and the files stay a tree.
THEOREM InvAlways == Spec => []Inv
  BY InitInv, NextInv, PTL DEF Spec

\* Every answer, also one begun after another failed, has the length of the body it has.
THEOREM AnswersFramed == Spec => []Framed
<1>1. Inv => Framed
  BY DEF Inv
<1>. QED  BY <1>1, InvAlways, PTL

\* Who answers with success.
LEMMA SuccessSteps ==
    ASSUME Inv, [Next]_vars, Replied({200, 201, 204})
    PROVE  Upload \/ Modify \/ Remove \/ Script \/ SendFile \/ SendListing
<1>1. pc # "sent" /\ pc' = "sent" /\ status' \in {200, 201, 204}
  BY DEF Replied
<1>2. ~(\E c \in Clients : ProcessRequest(c))
  <2>. SUFFICES ASSUME NEW c \in Clients, ProcessRequest(c)  PROVE FALSE
    OBVIOUS
  <2>1. PICK s \in {head[c].status} \cup IF head[c].status = 0 THEN ReaderErrors ELSE {} :
          /\ s # 0 => status' = s
          /\ s = 0 => status' = 0
    BY DEF ProcessRequest
  <2>2. head[c].status \in {0} \cup Refusals
    BY DEF Inv, WellTyped, Heads
  <2>. QED  BY <1>1, <2>1, <2>2, StatusAssumption DEF Refusals
<1>3. ~Redirect
  <2>. SUFFICES ASSUME Redirect  PROVE FALSE
    OBVIOUS
  <2>1. req \in Requests /\ status' = site.redirect
    BY WorkingIs DEF Redirect, Reply, Inv, AsAsked
  <2>2. site \in Sites
    BY <2>1 DEF Sites, site
  <2>. QED  BY <1>1, <2>1, <2>2, StatusAssumption
<1>4. ~ErrorPage
  <2>. SUFFICES ASSUME ErrorPage  PROVE FALSE
    OBVIOUS
  <2>1. status' = status \/ pc' = "error"
    BY DEF ErrorPage, Reply, ServerError500
  <2>. QED  BY <1>1, <2>1 DEF ErrorPage, Inv, Unsent
<1>5. ~(ResetClient \/ StackOverflow \/ LocationThrows)
  BY <1>1 DEF ResetClient, StackOverflow, LocationThrows
<1>6. ~(GetFile \/ GetListing \/ GetIndex \/ Index \/ Refuse \/ Delete)
  BY <1>1 DEF GetFile, GetListing, GetIndex, Index, Refuse, Delete, Goto, Error
<1>7. ~Post
  <2>. SUFFICES ASSUME Post  PROVE FALSE
    OBVIOUS
  <2>1. pc' \in {"error", "uploadInto", "script", "modify", "upload"}
    <3>1. KindOf(req) \in {"none", "file", "dir", "other"}
      <4>1. req \in Requests
        BY WorkingIs DEF Post, Inv, AsAsked
      <4>2. fs[req.path] \in Nodes
        BY <4>1, RequestAssumption DEF Inv, WellTyped
      <4>. QED  BY <4>2 DEF KindOf, Nodes, Kinds
    <3>. QED  BY <3>1 DEF Post, Goto, Error
  <2>. QED  BY <1>1, <2>1
<1>8. ~(UploadFails \/ ModifyFails)
  BY <1>1 DEF UploadFails, ModifyFails, Error
<1>9. ~(\E c \in Clients : HeadRead(c) \/ HeadRefused(c))
  BY <1>1 DEF HeadRead, HeadRefused, Read, work
<1>10. ~(Outside \/ Tick \/ UNCHANGED vars)
  BY <1>1 DEF Outside, Tick, vars, work
<1>. QED
  BY <1>2, <1>3, <1>4, <1>5, <1>6, <1>7, <1>8, <1>9, <1>10 DEF Next, Server

\* Who changes files.
LEMMA FileSteps ==
    ASSUME [Next]_vars, fs' # fs
    PROVE  Upload \/ UploadFails \/ Modify \/ ModifyFails \/ Remove \/ Outside
  BY DEF Next, Server, vars, ProcessRequest, ResetClient, ErrorPage, StackOverflow, Redirect,
         GetFile, GetListing, GetIndex, Index, Refuse, SendFile, SendListing, Post, Delete,
         Script, LocationThrows, HeadRead, HeadRefused, Read, Tick

\* Whatever other requests and other programs do in between, a file is changed by requests
\* that name it only, and where an answer says a body is, it is.
THEOREM BodiesStored == Spec => StoredWhereSaid
<1>. DEFINE step ==
        /\ \A p \in Paths \ Loose :
              fs[p].kind = "file" /\ fs'[p] # fs[p] =>
                  \E q \in {req.path, Append(req.path, Stamp)} : p \in {q, WithType(req, q)}
        /\ Replied({200, 201}) /\ req.method = "POST" /\ pc # "script" =>
              LET p == hdr'["Location"] IN
                  /\ fs'[p].kind = "file" /\ fs'[p].body = req.body
                  /\ \A d \in AllAbove(p) : fs'[d].kind = "dir"
<1>1. ASSUME Inv, [Next]_vars  PROVE step
  <2>1. ASSUME NEW p \in Paths \ Loose, fs[p].kind = "file", fs'[p] # fs[p]
        PROVE  \E q \in {req.path, Append(req.path, Stamp)} : p \in {q, WithType(req, q)}
    <3>1. ~Outside
      <4>. SUFFICES ASSUME Outside  PROVE FALSE
        OBVIOUS
      <4>1. PICK x \in Changes : fs' = [fs EXCEPT ![x[1]] = x[2]]
        BY DEF Outside
      <4>2. p # x[1]
        BY <4>1 DEF Loose
      <4>. QED  BY <1>1, <2>1, <4>1, <4>2 DEF Inv, WellTyped
    <3>2. Upload \/ UploadFails \/ Modify \/ ModifyFails \/ Remove
      BY <1>1, <2>1, <3>1, FileSteps
    <3>. QED  BY <1>1, <2>1, <3>2, WrittenFiles
  <2>2. ASSUME Replied({200, 201}), req.method = "POST", pc # "script"
        PROVE  LET p == hdr'["Location"] IN
                   /\ fs'[p].kind = "file" /\ fs'[p].body = req.body
                   /\ \A d \in AllAbove(p) : fs'[d].kind = "dir"
    <3>1. Upload \/ Modify \/ Remove \/ Script \/ SendFile \/ SendListing
      BY <1>1, <2>2, SuccessSteps DEF Replied
    <3>2. ~Remove /\ ~Script /\ ~SendFile /\ ~SendListing
      <4>1. pc \notin Deleting /\ pc \notin Getting
        BY <1>1, <2>2 DEF Inv, AsAsked
      <4>. QED  BY <2>2, <4>1 DEF Remove, Script, SendFile, SendListing, Deleting, Getting
    <3>3. CASE Upload
      <4>1. hdr' = PostHeaders(Target) /\ pc \in Posting
        BY <3>3 DEF Upload, Reply, Posting
      <4>2. hdr'["Location"] = Target
        BY <1>1, <4>1, PostHeadersFacts
      <4>. QED  BY <1>1, <3>3, <4>2, WrittenFiles
    <3>4. CASE Modify
      <4>1. hdr' = PostHeaders(path) /\ pc \in Posting
        BY <3>4 DEF Modify, Reply, Posting
      <4>2. hdr'["Location"] = path
        BY <1>1, <4>1, PostHeadersFacts
      <4>. QED  BY <1>1, <3>4, <4>2, WrittenFiles
    <3>. QED  BY <3>1, <3>2, <3>3, <3>4
  <2>. QED  BY <2>1, <2>2
<1>. QED  BY <1>1, InvAlways, PTL DEF Spec, StoredWhereSaid

\* Of all who ask for a file to be removed, those who read 204 are as many as the times it
\* was there and went.
THEOREM RemovedOnce == Spec => DeletedOnce
<1>1. ASSUME Inv, [Next]_vars, Replied({204}), req.method = "DELETE"
      PROVE  Exists(path) /\ fs'[path].kind = "none"
  <2>1. Upload \/ Modify \/ Remove \/ Script \/ SendFile \/ SendListing
    BY <1>1, SuccessSteps DEF Replied
  <2>2. pc \notin Posting /\ pc \notin Getting /\ pc # "script"
    BY <1>1 DEF Inv, AsAsked
  <2>3. Remove
    BY <2>1, <2>2 DEF Upload, Modify, Script, SendFile, SendListing, Posting, Getting
  <2>4. Removable(path) /\ fs' = [fs EXCEPT ![path] = Absent]
    BY <1>1, <2>3 DEF Remove, Replied, Error
  <2>5. Exists(path) /\ path \in Paths /\ fs \in [Paths -> Nodes]
    BY <1>1, <2>4 DEF Removable, Exists, Inv, WellTyped
  <2>. QED  BY <2>4, <2>5 DEF Absent
<1>. QED  BY <1>1, InvAlways, PTL DEF Spec, DeletedOnce
=============================================================================
