---------------------------- MODULE PartsProofs ----------------------------
(***************************************************************************)
(* Proofs about the parts of the runtime that stand by themselves, for any *)
(* instance of their constants.                                            *)
(*                                                                         *)
(* The workspace library (Capabilities): no order of publishing,           *)
(* disabling, restoring and granting takes a capability from a workspace   *)
(* that holds it, and a removal undoes what its grant added and nothing    *)
(* else.  The two facts behind it: whatever is available has its pins      *)
(* available, and a grant remembers a bundle that differs from the one it  *)
(* left by its own plan.                                                   *)
(*                                                                         *)
(* The host capacity (HostCapacity): no limit is exceeded by admissions    *)
(* and the memory of the workstation is promised once.  Each measurement   *)
(* that an admission carries is true in one sense only: what it found free *)
(* and what it saw reserved fit into the workstation together.  That       *)
(* survives everything that happens between the measurement and its        *)
(* transaction, because the transaction deducts the leases that the        *)
(* measurement did not see.                                                *)
(*                                                                         *)
(* The circuits of provider routes (RouteHealth): a reset that was entered *)
(* is over or still known to the circuit, whoever deletes, replaces or     *)
(* clears it, so that an attempt chooses a route that does not rest; one   *)
(* thread chooses for an attempt; a route changes in one transaction.      *)
(***************************************************************************)
EXTENDS Capabilities, HostCapacity, LocalQA, RouteHealth, SequenceTheorems, FiniteSetTheorems, TLAPS

\* The workspace library.

Statuses == {"unknown", "available", "disabled", "removed"}
GrantRow == [gid : Nat, item : Items, scopes : UNION {SUBSET Scopes[i] : i \in Items},
             prior : Bundles, applied : Bundles]

\* The types that the argument needs.
LibraryTypes ==
    /\ lib \in [Items -> Statuses]
    /\ bundle \in [Spaces -> Bundles \cup {Absent}]
    /\ grants \in [Spaces -> Seq(GrantRow)]
    /\ read \in [Spaces -> Bundles \cup {Absent}]
    /\ made \in Nat

\* Changes under review and templates name what exists.
ChangesTyped ==
    /\ \A c \in pending :
          /\ c.w \in Spaces
          /\ c.kind \in {"enable", "upgrade"} =>
                c.item \in Items /\ c.scopes \in UNION {SUBSET Scopes[i] : i \in Items}
          /\ c.kind = "account" => c.sel \in Selections
    /\ \A t \in templates : t.sel \in Selections

\* Whatever is available has everything that it pins available.
PinsAvailable ==
    \A i \in Items : lib[i] = "available" => \A d \in Deps[i] : lib[d] = "available"

\* Whatever is granted is available.
GrantedAvailable ==
    \A w \in Spaces : \A k \in DOMAIN grants[w] : lib[grants[w][k].item] = "available"

\* A grant remembers the bundle that it found and the one that it left.
Remembers(g) == g.applied = Merged(g.prior, g.item) /\ g.gid <= made
GrantsRemember == \A w \in Spaces : \A k \in DOMAIN grants[w] : Remembers(grants[w][k])

LibraryInv ==
    LibraryTypes /\ ChangesTyped /\ PinsAvailable /\ GrantedAvailable /\ GrantsRemember

-----------------------------------------------------------------------------
\* The operators

LEMMA PlanTyped == ASSUME NEW i \in Items PROVE Plan(i) \subseteq Items /\ i \in Plan(i)
BY LibraryAssumption DEF Plan

\* What is available can be installed: its plan is available to the last pin.
LEMMA AvailableIsInstallable ==
    ASSUME PinsAvailable, NEW i \in Items, lib[i] = "available" PROVE Installable(i)
BY LibraryAssumption DEF PinsAvailable, Installable, Plan

LEMMA MergedTyped ==
    ASSUME NEW b \in Bundles, NEW i \in Items
    PROVE  /\ Merged(b, i) \in Bundles
           /\ Merged(b, i).items = b.items \cup Plan(i)
           /\ Merged(b, i).sel = b.sel /\ Merged(b, i).own = b.own
BY PlanTyped DEF Merged, Bundles

LEMMA GrantTyped ==
    ASSUME made \in Nat, NEW w, NEW i \in Items, NEW s \in UNION {SUBSET Scopes[j] : j \in Items},
           NEW prior \in Bundles
    PROVE  /\ Grant(w, i, s, prior) \in GrantRow
           /\ Grant(w, i, s, prior).item = i /\ Grant(w, i, s, prior).gid = made + 1
           /\ Grant(w, i, s, prior).prior = prior
           /\ Grant(w, i, s, prior).applied = Merged(prior, i)
           /\ Grant(w, i, s, prior).applied \in Bundles
<1> DEFINE S == UNION {SUBSET Scopes[j] : j \in Items}
<1>1. Merged(prior, i) \in Bundles BY MergedTyped
<1>2. made + 1 \in Nat OBVIOUS
<1>3. s \in S OBVIOUS
<1> HIDE DEF S
<1>4. Grant(w, i, s, prior) \in [gid : Nat, item : Items, scopes : S, prior : Bundles, applied : Bundles]
  BY <1>1, <1>2, <1>3 DEF Grant
<1>5. Grant(w, i, s, prior) \in GrantRow BY <1>4 DEF GrantRow, S
<1> QED BY <1>1, <1>5 DEF Grant

LEMMA ExistsTyped ==
    ASSUME bundle \in [Spaces -> Bundles \cup {Absent}], NEW w \in Spaces, Exists(w)
    PROVE  bundle[w] \in Bundles
BY DEF Exists

LEMMA RowTyped ==
    ASSUME LibraryTypes PROVE \A w \in Spaces : \A k \in DOMAIN grants[w] : grants[w][k] \in GrantRow
<1> SUFFICES ASSUME NEW w \in Spaces, NEW k \in DOMAIN grants[w] PROVE grants[w][k] \in GrantRow
  OBVIOUS
<1>1. grants[w] \in Seq(GrantRow) BY DEF LibraryTypes
<1> QED BY <1>1

LEMMA FrontTyped ==
    ASSUME NEW S, NEW s \in Seq(S), s # <<>>
    PROVE  /\ Front(s) \in Seq(S) /\ Len(Front(s)) = Len(s) - 1
           /\ Len(s) \in Nat \ {0} /\ s[Len(s)] \in S
           /\ \A k \in DOMAIN Front(s) : k \in DOMAIN s /\ Front(s)[k] = s[k]
<1>1. Len(s) \in Nat \ {0} /\ DOMAIN s = 1 .. Len(s) OBVIOUS
<1>2. Len(s) - 1 \in Nat BY <1>1
<1>3. \A i \in 1 .. Len(s) - 1 : s[i] \in S BY <1>1
<1>4. /\ Front(s) \in Seq(S) /\ Len(Front(s)) = Len(s) - 1
      /\ \A k \in 1 .. Len(s) - 1 : Front(s)[k] = s[k]
  BY <1>1, <1>2, <1>3, SubSeqProperties DEF Front
<1> QED BY <1>1, <1>4

\* Grants are pushed and popped at the end; the others stay where they are.
LEMMA PushTyped ==
    ASSUME NEW S, NEW s \in Seq(S), NEW x \in S
    PROVE  /\ Append(s, x) \in Seq(S) /\ Len(Append(s, x)) = Len(s) + 1
           /\ Append(s, x)[Len(s) + 1] = x
           /\ \A k \in DOMAIN Append(s, x) : \/ k \in DOMAIN s /\ Append(s, x)[k] = s[k]
                                            \/ Append(s, x)[k] = x
OBVIOUS

-----------------------------------------------------------------------------
\* The steps

\* Steps that neither touch the library nor grant nor revoke.
LEMMA GrantsKept ==
    ASSUME LibraryInv, UNCHANGED <<lib, grants, made>>,
           bundle' \in [Spaces -> Bundles \cup {Absent}], read' \in [Spaces -> Bundles \cup {Absent}],
           ChangesTyped'
    PROVE  LibraryInv' /\ Exactly
<1>1. LibraryTypes' BY DEF LibraryInv, LibraryTypes
<1>2. PinsAvailable' /\ GrantedAvailable' BY DEF LibraryInv, PinsAvailable, GrantedAvailable
<1>3. GrantsRemember' BY DEF LibraryInv, GrantsRemember, Remembers, Merged, Plan
<1>4. Exactly BY DEF Exactly, Newest, Last
<1> QED BY <1>1, <1>2, <1>3, <1>4 DEF LibraryInv

LEMMA PublishStep == ASSUME LibraryInv, NEW i \in Items, Publish(i) PROVE LibraryInv' /\ Exactly
<1>1. lib[i] = "unknown" /\ (\A d \in Deps[i] : lib[d] = "available")
      /\ lib' = [lib EXCEPT ![i] = "available"]
  BY DEF Publish
<1>2. UNCHANGED <<bundle, grants, pending, templates, read, made>> BY DEF Publish
<1>3. LibraryTypes' /\ ChangesTyped'
  BY <1>1, <1>2 DEF LibraryInv, LibraryTypes, ChangesTyped, Statuses
<1>4. PinsAvailable'
  BY <1>1, LibraryAssumption DEF LibraryInv, LibraryTypes, PinsAvailable
<1>5. GrantedAvailable' BY <1>1, <1>2 DEF LibraryInv, LibraryTypes, GrantedAvailable
<1>6. GrantsRemember' BY <1>2 DEF LibraryInv, GrantsRemember, Remembers, Merged, Plan
<1>7. Exactly BY <1>2 DEF Exactly, Newest, Last
<1> QED BY <1>3, <1>4, <1>5, <1>6, <1>7 DEF LibraryInv

LEMMA StatusStep ==
    ASSUME LibraryInv, NEW i \in Items, NEW st \in {"available", "disabled", "removed"},
           SetStatus(i, st)
    PROVE  LibraryInv' /\ Exactly
<1>1. lib' = [lib EXCEPT ![i] = st] BY DEF SetStatus
<1>2. UNCHANGED <<bundle, grants, pending, templates, read, made>> BY DEF SetStatus
<1>3. LibraryTypes' /\ ChangesTyped'
  BY <1>1, <1>2 DEF LibraryInv, LibraryTypes, ChangesTyped, Statuses
<1>4. PinsAvailable' /\ GrantedAvailable'
  <2>t. PinsAvailable /\ GrantedAvailable /\ LibraryTypes BY DEF LibraryInv
  <2>1. CASE st = "available"
    <3>1. \A d \in Deps[i] \ {i} : lib[d] = "available"
      BY <2>1 DEF SetStatus, DepsAvailable, Plan
    <3>2. PinsAvailable' BY <3>1, <2>t, <2>1, <1>1, LibraryAssumption DEF LibraryTypes, PinsAvailable
    <3>3. GrantedAvailable' BY <2>t, <2>1, <1>1, <1>2 DEF LibraryTypes, GrantedAvailable
    <3> QED BY <3>2, <3>3
  <2>2. CASE st # "available"
    <3>1. Retirable(i) BY <2>2 DEF SetStatus
    <3>2. PinsAvailable'
      BY <3>1, <2>t, <2>2, <1>1, LibraryAssumption DEF LibraryTypes, PinsAvailable, Retirable
    <3>3. GrantedAvailable'
      BY <3>1, <2>t, <2>2, <1>1, <1>2 DEF LibraryTypes, GrantedAvailable, Retirable
    <3> QED BY <3>2, <3>3
  <2> QED BY <2>1, <2>2
<1>6. GrantsRemember' BY <1>2 DEF LibraryInv, GrantsRemember, Remembers, Merged, Plan
<1>7. Exactly BY <1>2 DEF Exactly, Newest, Last
<1> QED BY <1>3, <1>4, <1>6, <1>7 DEF LibraryInv

\* A change comes under review; one that is confirmed or expires leaves it.
LEMMA PrepareStep ==
    ASSUME LibraryInv, NEW w \in Spaces, NEW i \in Items, NEW s \in SUBSET Scopes[i],
           \/ PrepareEnable(w, i, s) \/ PrepareUpgrade(w, i, s) \/ PrepareWaiver(w, i)
    PROVE  LibraryInv' /\ Exactly
<1>1. UNCHANGED <<lib, bundle, grants, templates, read, made>>
  BY DEF PrepareEnable, PrepareUpgrade, PrepareWaiver
<1>2. \E c : /\ pending' = pending \cup {c} /\ c.w \in Spaces
             /\ c.kind \in {"enable", "upgrade"} =>
                   c.item \in Items /\ c.scopes \in UNION {SUBSET Scopes[j] : j \in Items}
             /\ c.kind = "account" => c.sel \in Selections
  <2>1. CASE PrepareEnable(w, i, s) BY <2>1 DEF PrepareEnable, Ask
  <2>2. CASE PrepareUpgrade(w, i, s) BY <2>2 DEF PrepareUpgrade, Ask
  <2>3. CASE PrepareWaiver(w, i) BY <2>3 DEF PrepareWaiver, Ask
  <2> QED BY <2>1, <2>2, <2>3
<1>3. ChangesTyped' BY <1>1, <1>2 DEF LibraryInv, ChangesTyped
<1> QED BY <1>1, <1>3, GrantsKept DEF LibraryInv, LibraryTypes

LEMMA PrepareAccountStep ==
    ASSUME LibraryInv, NEW w \in Spaces, NEW sel \in Selections, PrepareAccount(w, sel)
    PROVE  LibraryInv' /\ Exactly
<1>1. ChangesTyped' BY DEF LibraryInv, ChangesTyped, PrepareAccount, Ask
<1> QED BY <1>1, GrantsKept DEF LibraryInv, LibraryTypes, PrepareAccount

LEMMA ExpireStep == ASSUME LibraryInv, NEW c \in pending, Expire(c) PROVE LibraryInv' /\ Exactly
<1>1. ChangesTyped' BY DEF LibraryInv, ChangesTyped, Expire
<1> QED BY <1>1, GrantsKept DEF LibraryInv, LibraryTypes, Expire

LEMMA EnableStep ==
    ASSUME LibraryInv, NEW c \in pending, ConfirmEnable(c) PROVE LibraryInv' /\ Exactly
<1> DEFINE g == Grant(c.w, c.item, c.scopes, bundle[c.w])
<1>t. LibraryTypes /\ ChangesTyped /\ GrantedAvailable /\ GrantsRemember BY DEF LibraryInv
<1>1. c.w \in Spaces /\ c.item \in Items /\ c.scopes \in UNION {SUBSET Scopes[i] : i \in Items}
  BY <1>t DEF ConfirmEnable, ChangesTyped
<1>2. /\ bundle[c.w] \in Bundles /\ lib[c.item] = "available"
      /\ grants' = [grants EXCEPT ![c.w] = Append(@, g)]
      /\ bundle' = [bundle EXCEPT ![c.w] = g.applied]
      /\ made' = made + 1 /\ pending' \subseteq pending
      /\ UNCHANGED <<lib, templates, read>>
  BY <1>1, <1>t, ExistsTyped, PlanTyped DEF ConfirmEnable, Resolve, Count, Installable, LibraryTypes
<1>3. /\ g \in GrantRow /\ g.item = c.item /\ g.gid = made + 1
      /\ g.applied = Merged(g.prior, g.item) /\ g.applied \in Bundles
  <2>1. made \in Nat BY <1>t DEF LibraryTypes
  <2> QED BY <1>1, <1>2, <2>1, GrantTyped
<1> HIDE DEF g
<1>4. grants[c.w] \in Seq(GrantRow) BY <1>1, <1>t DEF LibraryTypes
<1>5. /\ grants'[c.w] \in Seq(GrantRow) /\ Len(grants'[c.w]) = Len(grants[c.w]) + 1
      /\ \A k \in DOMAIN grants'[c.w] : \/ k \in DOMAIN grants[c.w] /\ grants'[c.w][k] = grants[c.w][k]
                                        \/ grants'[c.w][k] = g
  BY <1>1, <1>2, <1>3, <1>4, <1>t, PushTyped DEF LibraryTypes
<1>6. \A w \in Spaces \ {c.w} : grants'[w] = grants[w] BY <1>1, <1>2, <1>t DEF LibraryTypes
<1>7. LibraryTypes' BY <1>1, <1>2, <1>3, <1>5, <1>t DEF LibraryTypes
<1>8. ChangesTyped' BY <1>2, <1>t DEF ChangesTyped
<1>9. PinsAvailable' BY <1>2 DEF LibraryInv, PinsAvailable
<1>10. GrantedAvailable' BY <1>1, <1>2, <1>3, <1>5, <1>6, <1>t DEF GrantedAvailable
<1>11. GrantsRemember'
  <2>1. \A h \in GrantRow : Remembers(h) => h.applied = Merged(h.prior, h.item) /\ h.gid <= made'
    BY <1>2, <1>t DEF Remembers, GrantRow, LibraryTypes
  <2>2. \A w \in Spaces : \A k \in DOMAIN grants[w] : grants[w][k] \in GrantRow
    BY <1>t, RowTyped
  <2>3. g.gid <= made' BY <1>2, <1>3, <1>t DEF LibraryTypes
  <2>4. ASSUME NEW w \in Spaces, NEW k \in DOMAIN grants'[w]
        PROVE  /\ grants'[w][k].applied = Merged(grants'[w][k].prior, grants'[w][k].item)
               /\ grants'[w][k].gid <= made'
    <3>1. CASE grants'[w][k] = g BY <3>1, <2>3, <1>3
    <3>2. CASE k \in DOMAIN grants[w] /\ grants'[w][k] = grants[w][k]
      BY <3>2, <2>1, <2>2, <1>t DEF GrantsRemember
    <3> QED BY <3>1, <3>2, <1>5, <1>6
  <2> QED BY <2>4 DEF GrantsRemember, Remembers, Merged, Plan
<1>12. Exactly
  <2>1. Len(grants[c.w]) \in Nat BY <1>4
  <2> QED BY <1>5, <1>6, <2>1 DEF Exactly, Newest, Last
<1> QED BY <1>7, <1>8, <1>9, <1>10, <1>11, <1>12 DEF LibraryInv

\* The newest grant goes; with it goes what it added.
LEMMA TopGrant ==
    ASSUME LibraryInv, NEW w \in Spaces, grants[w] # <<>>, Untouched(w)
    PROVE  /\ Newest(w) \in GrantRow /\ lib[Newest(w).item] = "available" /\ Newest(w).gid <= made
           /\ Newest(w).prior \in Bundles
           /\ bundle[w].items = Newest(w).prior.items \cup Plan(Newest(w).item)
           /\ bundle[w].sel = Newest(w).prior.sel /\ bundle[w].own = Newest(w).prior.own
<1>1. grants[w] \in Seq(GrantRow) BY DEF LibraryInv, LibraryTypes
<1>2. Len(grants[w]) \in DOMAIN grants[w] /\ Newest(w) \in GrantRow
  BY <1>1, FrontTyped DEF Newest
<1>3. Remembers(Newest(w)) /\ lib[Newest(w).item] = "available"
  BY <1>2 DEF LibraryInv, GrantsRemember, GrantedAvailable, Newest
<1>4. Newest(w).prior \in Bundles /\ Newest(w).item \in Items BY <1>2 DEF GrantRow
<1> QED BY <1>2, <1>3, <1>4, MergedTyped DEF Remembers, Untouched

LEMMA RevokeStep == ASSUME LibraryInv, NEW w \in Spaces, Revoke(w) PROVE LibraryInv' /\ Exactly
<1>t. LibraryTypes /\ ChangesTyped /\ GrantedAvailable /\ GrantsRemember BY DEF LibraryInv
<1>1. /\ grants[w] # <<>> /\ Untouched(w)
      /\ bundle' = [bundle EXCEPT ![w] = Newest(w).prior]
      /\ grants' = [grants EXCEPT ![w] = Front(@)]
      /\ UNCHANGED <<lib, pending, templates, read, made>>
  BY DEF Revoke
<1>2. /\ Newest(w).prior \in Bundles
      /\ bundle[w].items = Newest(w).prior.items \cup Plan(Newest(w).item)
      /\ bundle[w].sel = Newest(w).prior.sel /\ bundle[w].own = Newest(w).prior.own
  BY <1>1, TopGrant
<1>3. grants[w] \in Seq(GrantRow) BY <1>t DEF LibraryTypes
<1>4. /\ grants'[w] \in Seq(GrantRow)
      /\ \A k \in DOMAIN grants'[w] : k \in DOMAIN grants[w] /\ grants'[w][k] = grants[w][k]
  BY <1>1, <1>3, <1>t, FrontTyped DEF LibraryTypes
<1>5. \A v \in Spaces \ {w} : grants'[v] = grants[v] BY <1>1, <1>t DEF LibraryTypes
<1>6. LibraryTypes' BY <1>1, <1>2, <1>4, <1>t DEF LibraryTypes
<1>7. ChangesTyped' BY <1>1, <1>t DEF ChangesTyped
<1>8. PinsAvailable' BY <1>1 DEF LibraryInv, PinsAvailable
<1>9. GrantedAvailable' BY <1>1, <1>4, <1>5, <1>t DEF GrantedAvailable
<1>10. GrantsRemember'
  <2>1. \A v \in Spaces : \A k \in DOMAIN grants'[v] :
            k \in DOMAIN grants[v] /\ grants'[v][k] = grants[v][k]
    BY <1>4, <1>5
  <2> QED BY <1>1, <2>1, <1>t DEF GrantsRemember, Remembers, Merged, Plan
<1>11. Exactly
  <2>1. bundle'[w] = Newest(w).prior BY <1>1, <1>t DEF LibraryTypes
  <2>2. bundle'[w].sel = bundle[w].sel /\ bundle'[w].own = bundle[w].own
        /\ bundle[w].items \ bundle'[w].items \subseteq Plan(Newest(w).item)
    BY <1>2, <2>1
  <2> QED BY <1>5, <2>2 DEF Exactly, Newest, Last
<1> QED BY <1>6, <1>7, <1>8, <1>9, <1>10, <1>11 DEF LibraryInv

LEMMA UpgradeStep ==
    ASSUME LibraryInv, NEW c \in pending, ConfirmUpgrade(c) PROVE LibraryInv' /\ Exactly
<1> DEFINE g == Grant(c.w, c.item, c.scopes, Newest(c.w).prior)
<1>t. LibraryTypes /\ ChangesTyped /\ GrantedAvailable /\ GrantsRemember BY DEF LibraryInv
<1>1. c.w \in Spaces /\ c.item \in Items /\ c.scopes \in UNION {SUBSET Scopes[i] : i \in Items}
  BY <1>t DEF ConfirmUpgrade, ChangesTyped
<1>2. /\ lib[c.item] = "available" /\ grants[c.w] # <<>> /\ Untouched(c.w)
      /\ grants' = [grants EXCEPT ![c.w] = Append(Front(@), g)]
      /\ bundle' = [bundle EXCEPT ![c.w] = g.applied]
      /\ made' = made + 1 /\ pending' \subseteq pending
      /\ UNCHANGED <<lib, templates, read>>
  BY <1>1, PlanTyped DEF ConfirmUpgrade, Resolve, Count, Installable
<1>3. /\ Newest(c.w).prior \in Bundles /\ Newest(c.w).gid <= made /\ Newest(c.w) \in GrantRow
      /\ bundle[c.w].items = Newest(c.w).prior.items \cup Plan(Newest(c.w).item)
      /\ bundle[c.w].sel = Newest(c.w).prior.sel /\ bundle[c.w].own = Newest(c.w).prior.own
  BY <1>1, <1>2, TopGrant
<1>4. /\ g \in GrantRow /\ g.item = c.item /\ g.gid = made + 1
      /\ g.prior = Newest(c.w).prior /\ g.applied = Merged(g.prior, g.item) /\ g.applied \in Bundles
  <2>1. made \in Nat BY <1>t DEF LibraryTypes
  <2> QED BY <1>1, <1>3, <2>1, GrantTyped
<1> HIDE DEF g
<1>5. grants[c.w] \in Seq(GrantRow) BY <1>1, <1>t DEF LibraryTypes
<1>6. /\ grants'[c.w] \in Seq(GrantRow) /\ Len(grants'[c.w]) = Len(grants[c.w])
      /\ grants'[c.w][Len(grants'[c.w])] = g
      /\ \A k \in DOMAIN grants'[c.w] : \/ k \in DOMAIN grants[c.w] /\ grants'[c.w][k] = grants[c.w][k]
                                        \/ grants'[c.w][k] = g
  <2> DEFINE f == Front(grants[c.w])
  <2>1. /\ f \in Seq(GrantRow) /\ Len(f) = Len(grants[c.w]) - 1 /\ Len(grants[c.w]) \in Nat
        /\ \A k \in DOMAIN f : k \in DOMAIN grants[c.w] /\ f[k] = grants[c.w][k]
    BY <1>2, <1>5, FrontTyped
  <2>2. grants'[c.w] = Append(f, g) BY <1>1, <1>2, <1>t DEF LibraryTypes
  <2> HIDE DEF f
  <2>3. /\ Append(f, g) \in Seq(GrantRow) /\ Len(Append(f, g)) = Len(f) + 1
        /\ Append(f, g)[Len(f) + 1] = g
        /\ \A k \in DOMAIN Append(f, g) : \/ k \in DOMAIN f /\ Append(f, g)[k] = f[k]
                                          \/ Append(f, g)[k] = g
    BY <2>1, <1>4, PushTyped
  <2> QED BY <2>1, <2>2, <2>3
<1>7. \A w \in Spaces \ {c.w} : grants'[w] = grants[w] BY <1>1, <1>2, <1>t DEF LibraryTypes
<1>8. LibraryTypes' BY <1>1, <1>2, <1>4, <1>6, <1>t DEF LibraryTypes
<1>9. ChangesTyped' BY <1>2, <1>t DEF ChangesTyped
<1>10. PinsAvailable' BY <1>2 DEF LibraryInv, PinsAvailable
<1>11. GrantedAvailable' BY <1>1, <1>2, <1>4, <1>6, <1>7, <1>t DEF GrantedAvailable
<1>12. GrantsRemember'
  <2>1. \A h \in GrantRow : Remembers(h) => h.applied = Merged(h.prior, h.item) /\ h.gid <= made'
    BY <1>2, <1>t DEF Remembers, GrantRow, LibraryTypes
  <2>2. \A w \in Spaces : \A k \in DOMAIN grants[w] : grants[w][k] \in GrantRow
    BY <1>t, RowTyped
  <2>3. g.gid <= made' BY <1>2, <1>4, <1>t DEF LibraryTypes
  <2>4. ASSUME NEW w \in Spaces, NEW k \in DOMAIN grants'[w]
        PROVE  /\ grants'[w][k].applied = Merged(grants'[w][k].prior, grants'[w][k].item)
               /\ grants'[w][k].gid <= made'
    <3>1. CASE grants'[w][k] = g BY <3>1, <2>3, <1>4
    <3>2. CASE k \in DOMAIN grants[w] /\ grants'[w][k] = grants[w][k]
      BY <3>2, <2>1, <2>2, <1>t DEF GrantsRemember
    <3> QED BY <3>1, <3>2, <1>6, <1>7
  <2> QED BY <2>4 DEF GrantsRemember, Remembers, Merged, Plan
<1>13. Exactly
  <2>1. bundle'[c.w] = g.applied BY <1>1, <1>2, <1>t DEF LibraryTypes
  <2>2. g.applied.sel = g.prior.sel /\ g.applied.own = g.prior.own
        /\ g.applied.items = g.prior.items \cup Plan(g.item)
    BY <1>1, <1>3, <1>4, MergedTyped
  <2>3. bundle'[c.w].sel = bundle[c.w].sel /\ bundle'[c.w].own = bundle[c.w].own
        /\ bundle[c.w].items \ bundle'[c.w].items \subseteq Plan(Newest(c.w).item)
    BY <2>1, <2>2, <1>3, <1>4
  <2> QED BY <1>7, <2>3 DEF Exactly, Newest, Last
<1> QED BY <1>8, <1>9, <1>10, <1>11, <1>12, <1>13 DEF LibraryInv

\* The selection of the account, the work of the workspace and its copies leave the grants alone.
LEMMA AccountStep ==
    ASSUME LibraryInv, NEW c \in pending, ConfirmAccount(c) \/ ConfirmWaiver(c)
    PROVE  LibraryInv' /\ Exactly
<1>1. ChangesTyped'
  BY DEF LibraryInv, ChangesTyped, ConfirmAccount, ConfirmWaiver, Resolve
<1>2. UNCHANGED <<lib, grants, made, read>> BY DEF ConfirmAccount, ConfirmWaiver
<1>3. bundle' \in [Spaces -> Bundles \cup {Absent}]
  <2>1. CASE ConfirmAccount(c)
    <3>1. c.w \in Spaces /\ c.sel \in Selections /\ Exists(c.w)
          /\ bundle' = [bundle EXCEPT ![c.w].sel = c.sel]
      BY <2>1 DEF ConfirmAccount, LibraryInv, ChangesTyped
    <3>2. bundle[c.w] \in Bundles BY <3>1, ExistsTyped DEF LibraryInv, LibraryTypes
    <3>3. [bundle[c.w] EXCEPT !.sel = c.sel] \in Bundles BY <3>1, <3>2 DEF Bundles
    <3> QED BY <3>1, <3>3 DEF LibraryInv, LibraryTypes
  <2>2. CASE ConfirmWaiver(c) BY <2>2 DEF ConfirmWaiver, LibraryInv, LibraryTypes
  <2> QED BY <2>1, <2>2
<1> QED BY <1>1, <1>2, <1>3, GrantsKept DEF LibraryInv, LibraryTypes

LEMMA WorkStep ==
    ASSUME LibraryInv, NEW w \in Spaces,
           AssignReads(w) \/ AssignWrites(w) \/ Assign(w) \/ RunEnds(w) \/ Close(w)
    PROVE  LibraryInv' /\ Exactly
<1>1. UNCHANGED <<lib, grants, made, pending, templates>>
  BY DEF AssignReads, AssignWrites, Assign, RunEnds, Close
<1>2. ChangesTyped' BY <1>1 DEF LibraryInv, ChangesTyped
<1>3. bundle' \in [Spaces -> Bundles \cup {Absent}] /\ read' \in [Spaces -> Bundles \cup {Absent}]
  <2>t. LibraryTypes BY DEF LibraryInv
  <2>1. CASE AssignReads(w) BY <2>1, <2>t DEF AssignReads, LibraryTypes
  <2>2. CASE AssignWrites(w)
    <3>1. read[w] \in Bundles BY <2>2, <2>t DEF AssignWrites, LibraryTypes
    <3>2. [read[w] EXCEPT !.own = TRUE] \in Bundles BY <3>1 DEF Bundles
    <3> QED BY <2>2, <2>t, <3>2 DEF AssignWrites, LibraryTypes
  <2>3. CASE Assign(w) \/ RunEnds(w) \/ Close(w)
    BY <2>3, <2>t DEF Assign, RunEnds, Close, LibraryTypes
  <2> QED BY <2>1, <2>2, <2>3
<1> QED BY <1>1, <1>2, <1>3, GrantsKept

LEMMA AccountChangesStep ==
    ASSUME LibraryInv, NEW b \in BOOLEAN, AccountChanges(b) PROVE LibraryInv' /\ Exactly
<1>1. ChangesTyped' BY DEF LibraryInv, ChangesTyped, AccountChanges
<1> QED BY <1>1, GrantsKept DEF LibraryInv, LibraryTypes, AccountChanges

LEMMA CopyStep ==
    ASSUME LibraryInv, NEW w \in Spaces, NEW c \in Spaces,
           Duplicate(w, c) \/ SaveTemplate(w) \/ \E t \in templates : Instantiate(t, c)
    PROVE  LibraryInv' /\ Exactly
<1>t. LibraryTypes /\ ChangesTyped BY DEF LibraryInv
<1>1. UNCHANGED <<lib, grants, made, pending, read>> BY DEF Duplicate, SaveTemplate, Instantiate
<1>2. ChangesTyped' /\ bundle' \in [Spaces -> Bundles \cup {Absent}]
  <2>1. CASE Duplicate(w, c)
    <3>1. CopiedBundle(bundle[w]) \in Bundles BY DEF CopiedBundle, Bundles, Selections
    <3> QED BY <2>1, <3>1, <1>t DEF Duplicate, LibraryTypes, ChangesTyped
  <2>2. CASE SaveTemplate(w)
    <3>1. bundle[w] \in Bundles BY <2>2, <1>t, ExistsTyped DEF SaveTemplate, LibraryTypes
    <3>2. bundle[w].sel \in Selections BY <3>1 DEF Bundles
    <3> QED BY <2>2, <3>2, <1>t DEF SaveTemplate, LibraryTypes, ChangesTyped
  <2>3. CASE \E t \in templates : Instantiate(t, c)
    <3>1. PICK t \in templates : Instantiate(t, c) BY <2>3
    <3>2. [items |-> {}, sel |-> t.sel, own |-> FALSE] \in Bundles BY <1>t DEF ChangesTyped, Bundles
    <3> QED BY <3>1, <3>2, <1>t DEF Instantiate, LibraryTypes, ChangesTyped
  <2> QED BY <2>1, <2>2, <2>3
<1> QED BY <1>1, <1>2, <1>t, GrantsKept DEF LibraryTypes

-----------------------------------------------------------------------------
LEMMA LibraryInitInv == CapInit => LibraryInv
<1> SUFFICES ASSUME CapInit PROVE LibraryInv OBVIOUS
<1>1. LibraryTypes
  <2>1. [items |-> {}, sel |-> "legacy", own |-> FALSE] \in Bundles BY DEF Bundles, Selections
  <2> QED BY <2>1 DEF CapInit, LibraryTypes, Statuses
<1>2. ChangesTyped BY DEF CapInit, ChangesTyped
<1>3. PinsAvailable BY LibraryAssumption DEF CapInit, PinsAvailable
<1>4. GrantedAvailable /\ GrantsRemember BY DEF CapInit, GrantedAvailable, GrantsRemember
<1> QED BY <1>1, <1>2, <1>3, <1>4 DEF LibraryInv

LEMMA LibraryInvStep == LibraryInv /\ [CapNext]_capVars => LibraryInv' /\ (Exactly \/ UNCHANGED capVars)
<1> SUFFICES ASSUME LibraryInv, [CapNext]_capVars PROVE LibraryInv' /\ (Exactly \/ UNCHANGED capVars)
  OBVIOUS
<1>1. CASE UNCHANGED capVars
  <2>1. UNCHANGED <<lib, bundle, grants, pending, templates, read, made>> BY <1>1 DEF capVars
  <2>2. ChangesTyped' BY <2>1 DEF LibraryInv, ChangesTyped
  <2> QED BY <1>1, <2>1, <2>2, GrantsKept DEF LibraryInv, LibraryTypes
<1>2. CASE \E i \in Items : Publish(i) \/ \E st \in {"available", "disabled", "removed"} : SetStatus(i, st)
  BY <1>2, PublishStep, StatusStep
<1>3. CASE \E w \in Spaces, i \in Items :
             \/ \E s \in SUBSET Scopes[i] : PrepareEnable(w, i, s) \/ PrepareUpgrade(w, i, s)
             \/ PrepareWaiver(w, i)
  <2>1. PICK w \in Spaces, i \in Items :
             \/ \E s \in SUBSET Scopes[i] : PrepareEnable(w, i, s) \/ PrepareUpgrade(w, i, s)
             \/ PrepareWaiver(w, i)
    BY <1>3
  <2>2. "legacy" \in Selections /\ {} \in SUBSET Scopes[i] BY DEF Selections
  <2> QED BY <2>1, <2>2, PrepareStep
<1>4. CASE \E w \in Spaces, sel \in Selections : PrepareAccount(w, sel)
  BY <1>4, PrepareAccountStep
<1>5. CASE \E c \in pending : Expire(c) \/ ConfirmEnable(c) \/ ConfirmUpgrade(c) \/ ConfirmAccount(c)
                              \/ ConfirmWaiver(c)
  BY <1>5, ExpireStep, EnableStep, UpgradeStep, AccountStep
<1>6. CASE \E b \in BOOLEAN : AccountChanges(b) BY <1>6, AccountChangesStep
<1>7. CASE \E w \in Spaces : Revoke(w) \/ AssignReads(w) \/ AssignWrites(w) \/ Assign(w) \/ RunEnds(w)
                             \/ Close(w) \/ SaveTemplate(w)
  BY <1>7, RevokeStep, WorkStep, CopyStep
<1>8. CASE (\E w, c \in Spaces : Duplicate(w, c))
           \/ (\E t \in templates, c \in Spaces : Instantiate(t, c))
  BY <1>8, CopyStep
<1> QED BY <1>1, <1>2, <1>3, <1>4, <1>5, <1>6, <1>7, <1>8 DEF CapNext

\* The inductive invariant, for any workspaces, items, pins and bounds.
THEOREM LibraryCorrect == CapSpec => []LibraryInv
<1>1. LibraryInv /\ [CapNext]_capVars => LibraryInv' BY LibraryInvStep
<1> QED BY LibraryInitInv, <1>1, PTL DEF CapSpec

(* No operator of the library takes a capability, or one that it pins at any depth, from a
   workspace that holds it (update_library_status), and removing or upgrading a capability
   undoes what its grant added and nothing else (revoke_workspace_grant).                     *)
THEOREM GrantsAreSafe == CapSpec => LibraryExact
<1>1. LibraryInv => GrantsStayAvailable
  <2> SUFFICES ASSUME LibraryInv, NEW w \in Spaces, NEW k \in DOMAIN grants[w]
               PROVE  Installable(grants[w][k].item)
    BY DEF GrantsStayAvailable
  <2>1. grants[w][k] \in GrantRow BY RowTyped DEF LibraryInv
  <2>2. grants[w][k].item \in Items BY <2>1 DEF GrantRow
  <2> QED BY <2>2, AvailableIsInstallable DEF LibraryInv, GrantedAvailable
<1>2. CapSpec => []GrantsStayAvailable BY <1>1, LibraryCorrect, PTL
<1>3. LibraryInv /\ [CapNext]_capVars => Exactly \/ UNCHANGED capVars BY LibraryInvStep
<1>4. CapSpec => [][Exactly]_capVars BY <1>3, LibraryCorrect, PTL DEF CapSpec
<1> QED BY <1>2, <1>4, PTL DEF LibraryExact, RemovalIsExact

-----------------------------------------------------------------------------
\* The host capacity.

\* The leases that count against the limits.
Counted == Unexpired \ adopted

\* The cached measurement was taken of what ran then.
CacheTrue == cache.avail + Needs(cache.running) <= Memory

\* What an admission carries still fits.
MeasurementsTrue ==
    \A e \in Executors : adm[e].pc # "idle" =>
        adm[e].run \in Runs /\ adm[e].avail + Needs(adm[e].seen \ {adm[e].run}) <= Memory

CapacityInv == CapacityTypeOK /\ CacheTrue /\ MeasurementsTrue /\ LimitsKept /\ MemoryKept

-----------------------------------------------------------------------------
\* Counting

LEMMA NeedsNat == ASSUME NEW R \in SUBSET Runs PROVE Needs(R) \in Nat
BY CapacityAssumption, FS_Subset, FS_CardinalityType DEF Needs

LEMMA NeedsMonotone ==
    ASSUME NEW R \in SUBSET Runs, NEW S \in SUBSET R PROVE Needs(S) <= Needs(R)
<1>1. IsFiniteSet(R \cap Docker) BY CapacityAssumption, FS_Subset
<1> QED BY <1>1, FS_Subset DEF Needs

LEMMA NeedsUnion ==
    ASSUME NEW R \in SUBSET Runs, NEW S \in SUBSET Runs
    PROVE  /\ Needs(R \cup S) <= Needs(R) + Needs(S)
           /\ R \cap S = {} => Needs(R \cup S) = Needs(R) + Needs(S)
<1> DEFINE A == R \cap Docker
           B == S \cap Docker
<1>1. IsFiniteSet(A) /\ IsFiniteSet(B) BY CapacityAssumption, FS_Subset
<1>2. (R \cup S) \cap Docker = A \cup B OBVIOUS
<1>3. Cardinality(A \cup B) = Cardinality(A) + Cardinality(B) - Cardinality(A \cap B)
  BY <1>1, FS_Union
<1>4. IsFiniteSet(A \cap B) BY <1>1, FS_Subset
<1>5. Cardinality(A) \in Nat /\ Cardinality(B) \in Nat /\ Cardinality(A \cap B) \in Nat
  BY <1>1, <1>4, FS_CardinalityType
<1>6. R \cap S = {} => Cardinality(A \cap B) = 0
  BY FS_EmptySet
<1>7. /\ Needs(R \cup S) = Cardinality(A \cup B) /\ Needs(R) = Cardinality(A)
      /\ Needs(S) = Cardinality(B)
  BY <1>2 DEF Needs
<1> HIDE DEF A, B
<1> QED BY <1>3, <1>5, <1>6, <1>7

LEMMA NeedsOne == ASSUME NEW r \in Runs PROVE Needs({r}) = Need(r) /\ Need(r) \in {0, 1}
<1>1. CASE r \in Docker
  <2>1. {r} \cap Docker = {r} BY <1>1
  <2> QED BY <1>1, <2>1, FS_Singleton DEF Needs, Need
<1>2. CASE r \notin Docker
  <2>1. {r} \cap Docker = {} BY <1>2
  <2> QED BY <1>2, <2>1, FS_EmptySet DEF Needs, Need
<1> QED BY <1>1, <1>2

\* A measurement covers a run: with the leases that it counted, the run fits.
LEMMA CoveredFits ==
    ASSUME NEW r \in Runs, NEW m, m.avail \in Int, m.seen \in SUBSET Runs,
           m.avail + Needs(m.seen \ {r}) <= Memory,
           NEW A \in SUBSET Runs, r \notin A, NEW n \in Nat, Covers(m, r, A, n),
           NEW X \in SUBSET (A \cup {r})
    PROVE  Needs(X) + Headroom <= Memory
<1>1. Needs(X) <= Needs(A) + Need(r)
  <2>1. Needs(X) <= Needs(A \cup {r}) BY NeedsMonotone
  <2>2. Needs(A \cup {r}) <= Needs(A) + Needs({r}) BY NeedsUnion
  <2>3. /\ Needs(X) \in Nat /\ Needs(A \cup {r}) \in Nat /\ Needs(A) \in Nat /\ Need(r) \in Nat
        /\ Needs({r}) = Need(r)
    BY NeedsNat, NeedsOne
  <2> QED BY <2>1, <2>2, <2>3
<1>2. Needs(A) <= Needs(m.seen \ {r}) + Needs(A \ m.seen)
  <2>1. A \subseteq (m.seen \ {r}) \cup (A \ m.seen) OBVIOUS
  <2>2. Needs(A) <= Needs((m.seen \ {r}) \cup (A \ m.seen)) BY <2>1, NeedsMonotone
  <2>3. Needs((m.seen \ {r}) \cup (A \ m.seen)) <= Needs(m.seen \ {r}) + Needs(A \ m.seen)
    BY NeedsUnion
  <2>4. /\ Needs(A) \in Nat /\ Needs((m.seen \ {r}) \cup (A \ m.seen)) \in Nat
        /\ Needs(m.seen \ {r}) \in Nat /\ Needs(A \ m.seen) \in Nat
    BY NeedsNat
  <2> QED BY <2>2, <2>3, <2>4
<1>3. m.avail - Needs(A \ m.seen) - n >= Headroom + Need(r) BY DEF Covers
<1>4. /\ Needs(X) \in Nat /\ Needs(A) \in Nat /\ Needs(m.seen \ {r}) \in Nat
      /\ Needs(A \ m.seen) \in Nat /\ Need(r) \in Nat
  BY NeedsNat, NeedsOne
<1>5. Headroom \in Nat /\ Memory \in Nat BY CapacityAssumption
<1> QED BY <1>1, <1>2, <1>3, <1>4, <1>5

LEMMA PreflightsNat == ASSUME NEW R PROVE Preflights(R) \in Nat
<1>1. IsFiniteSet({e \in Reserving : pre[e].run \in R})
  BY CapacityAssumption, FS_Subset DEF Reserving
<1> QED BY <1>1, FS_CardinalityType DEF Preflights

-----------------------------------------------------------------------------
\* What keeps the limits

LEMMA ActiveTyped == Active \subseteq Runs /\ Unexpired \subseteq Active /\ Counted \subseteq Unexpired
BY DEF Active, Unexpired, Counted

\* Nothing is admitted: no more leases count.
LEMMA FewerCount ==
    ASSUME LimitsKept, MemoryKept, Counted' \subseteq Counted
    PROVE  LimitsKept' /\ MemoryKept'
<1>1. Counted \subseteq Runs BY ActiveTyped
<1>2. LimitsKept'
  <2> SUFFICES ASSUME NEW p \in Pools PROVE Cardinality(Counted' \cap p.members) <= p.limit
    BY DEF LimitsKept, Counted
  <2>1. Cardinality(Counted \cap p.members) <= p.limit BY DEF LimitsKept, Counted
  <2>2. IsFiniteSet(Counted \cap p.members) BY <1>1, CapacityAssumption, FS_Subset
  <2>3. Counted' \cap p.members \in SUBSET (Counted \cap p.members) OBVIOUS
  <2>4. /\ IsFiniteSet(Counted' \cap p.members)
        /\ Cardinality(Counted' \cap p.members) <= Cardinality(Counted \cap p.members)
    BY <2>2, <2>3, FS_Subset
  <2>5. Cardinality(Counted \cap p.members) \in Nat /\ Cardinality(Counted' \cap p.members) \in Nat
    BY <2>2, <2>4, FS_CardinalityType
  <2>6. p.limit \in Nat BY CapacityAssumption
  <2> QED BY <2>1, <2>4, <2>5, <2>6
<1>3. MemoryKept'
  <2>1. Needs(Counted) + Headroom <= Memory BY DEF MemoryKept, Counted
  <2>2. Needs(Counted') <= Needs(Counted) BY <1>1, NeedsMonotone
  <2>3. Needs(Counted) \in Nat /\ Needs(Counted') \in Nat /\ Headroom \in Nat /\ Memory \in Nat
    BY <1>1, NeedsNat, CapacityAssumption
  <2>4. Needs(Counted') + Headroom <= Memory BY <2>1, <2>2, <2>3
  <2> QED BY <2>4 DEF MemoryKept, Counted
<1> QED BY <1>2, <1>3

\* One run is admitted by a check that counted A besides it.
LEMMA OneMoreCounts ==
    ASSUME LimitsKept, NEW r \in Runs, NEW m, m.avail \in Int, m.seen \in SUBSET Runs,
           m.avail + Needs(m.seen \ {r}) <= Memory,
           NEW A \in SUBSET Runs, r \notin A, NEW n \in Nat, Covers(m, r, A, n),
           \A p \in Pools : r \in p.members => Cardinality(A \cap p.members) < p.limit,
           Counted' \subseteq Counted \cup {r}, Counted' \subseteq A \cup {r}
    PROVE  LimitsKept' /\ MemoryKept'
<1>1. Counted \subseteq Runs BY ActiveTyped
<1>2. LimitsKept'
  <2> SUFFICES ASSUME NEW p \in Pools PROVE Cardinality(Counted' \cap p.members) <= p.limit
    BY DEF LimitsKept, Counted
  <2>0. p.limit \in Nat BY CapacityAssumption
  <2>1. CASE r \in p.members
    <3>1. Cardinality(A \cap p.members) < p.limit BY <2>1
    <3>2. IsFiniteSet(A \cap p.members) BY CapacityAssumption, FS_Subset
    <3>3. /\ IsFiniteSet((A \cap p.members) \cup {r})
          /\ Cardinality((A \cap p.members) \cup {r}) \in {Cardinality(A \cap p.members),
                                                         Cardinality(A \cap p.members) + 1}
      BY <3>2, FS_AddElement
    <3>4. Counted' \cap p.members \in SUBSET ((A \cap p.members) \cup {r}) OBVIOUS
    <3>5. /\ IsFiniteSet(Counted' \cap p.members)
          /\ Cardinality(Counted' \cap p.members) <= Cardinality((A \cap p.members) \cup {r})
      BY <3>3, <3>4, FS_Subset
    <3>6. /\ Cardinality(Counted' \cap p.members) \in Nat /\ Cardinality(A \cap p.members) \in Nat
      BY <3>2, <3>5, FS_CardinalityType
    <3> QED BY <2>0, <3>1, <3>3, <3>5, <3>6
  <2>2. CASE r \notin p.members
    <3>1. Counted' \cap p.members \in SUBSET (Counted \cap p.members) BY <2>2
    <3>2. IsFiniteSet(Counted \cap p.members) BY <1>1, CapacityAssumption, FS_Subset
    <3>3. /\ IsFiniteSet(Counted' \cap p.members)
          /\ Cardinality(Counted' \cap p.members) <= Cardinality(Counted \cap p.members)
      BY <3>1, <3>2, FS_Subset
    <3>4. Cardinality(Counted \cap p.members) <= p.limit BY DEF LimitsKept, Counted
    <3>5. Cardinality(Counted \cap p.members) \in Nat /\ Cardinality(Counted' \cap p.members) \in Nat
      BY <3>2, <3>3, FS_CardinalityType
    <3> QED BY <2>0, <3>3, <3>4, <3>5
  <2> QED BY <2>1, <2>2
<1>3. MemoryKept'
  <2>1. Needs(Counted') + Headroom <= Memory BY CoveredFits
  <2> QED BY <2>1 DEF MemoryKept, Counted
<1> QED BY <1>2, <1>3

-----------------------------------------------------------------------------
\* Admissions

\* A measurement is true when it is made.
LEMMA MeasuredTrue ==
    ASSUME CapacityTypeOK, CacheTrue, NEW r \in Runs
    PROVE  /\ Measured(r).avail \in Int /\ Measured(r).seen \in SUBSET Runs
           /\ Measured(r).avail + Needs(Measured(r).seen \ {r}) <= Memory
<1> DEFINE C == cache.running
           A == Active \ {r}
<1>1. C \in SUBSET Runs /\ cache.avail \in Nat BY CapacityAssumption DEF CapacityTypeOK
<1>2. A \in SUBSET Runs BY ActiveTyped
<1> HIDE DEF C, A
<1>3. Needs(A) = Needs(A \ C) + Needs(A \cap C)
  <2>1. (A \ C) \cup (A \cap C) = A /\ (A \ C) \cap (A \cap C) = {} OBVIOUS
  <2> QED BY <1>2, <2>1, NeedsUnion
<1>4. Needs({r} \cap C) + Needs(A \cap C) <= Needs(C)
  <2>1. ({r} \cap C) \cap (A \cap C) = {} BY DEF A
  <2>2. Needs(({r} \cap C) \cup (A \cap C)) = Needs({r} \cap C) + Needs(A \cap C)
    BY <1>1, <2>1, NeedsUnion
  <2>3. Needs(({r} \cap C) \cup (A \cap C)) <= Needs(C) BY <1>1, NeedsMonotone
  <2> QED BY <2>2, <2>3
<1>5. /\ Needs(A) \in Nat /\ Needs(A \ C) \in Nat /\ Needs(A \cap C) \in Nat
      /\ Needs({r} \cap C) \in Nat /\ Needs(C) \in Nat
  BY <1>1, <1>2, NeedsNat
<1>6. cache.avail + Needs(C) <= Memory BY DEF CacheTrue, C
<1>7. /\ Measured(r).avail = cache.avail + Needs({r} \cap C) - Needs(A \ C)
      /\ Measured(r).seen = Active
  BY DEF Measured, A, C
<1>8. Measured(r).seen \ {r} = A BY <1>7 DEF A
<1>9. Active \in SUBSET Runs /\ Memory \in Nat BY ActiveTyped, CapacityAssumption
<1>10. Needs(Measured(r).seen \ {r}) = Needs(A) BY <1>8
<1>11. Measured(r).avail + Needs(A) <= Memory BY <1>1, <1>3, <1>4, <1>5, <1>6, <1>7, <1>9
<1> QED BY <1>1, <1>5, <1>7, <1>9, <1>10, <1>11

LEMMA MeasureStep ==
    ASSUME CapacityInv, NEW e \in Executors, NEW r \in Runs, Measure(e, r) PROVE CapacityInv'
<1> DEFINE a == [pc |-> IF run[r] = "none" THEN "measured" ELSE "dispatch",
                 run |-> r, avail |-> Measured(r).avail, seen |-> Measured(r).seen]
<1>1. adm' = [adm EXCEPT ![e] = a] /\ UNCHANGED <<run, lease, pre, proc, cache, up, adopted, faults>>
  BY DEF Measure
<1>2. /\ Measured(r).avail \in Int /\ Measured(r).seen \in SUBSET Runs
      /\ Measured(r).avail + Needs(Measured(r).seen \ {r}) <= Memory
  BY MeasuredTrue DEF CapacityInv
<1>3. a \in AdmRow BY <1>2 DEF AdmRow
<1>4. a.run = r /\ a.avail + Needs(a.seen \ {a.run}) <= Memory BY <1>2
<1> HIDE DEF a
<1>5. CapacityTypeOK' BY <1>1, <1>3 DEF CapacityInv, CapacityTypeOK
<1>6. CacheTrue' BY <1>1 DEF CapacityInv, CacheTrue, Needs
<1>7. MeasurementsTrue'
  BY <1>1, <1>4 DEF CapacityInv, CapacityTypeOK, MeasurementsTrue, Needs
<1>8. LimitsKept' /\ MemoryKept'
  BY <1>1, FewerCount DEF CapacityInv, Counted, Unexpired, Active
<1> QED BY <1>5, <1>6, <1>7, <1>8 DEF CapacityInv

\* What an executor does to its own admission: it goes on with what it measured, or gives up.
AdmissionGoesOn(e) ==
    \/ adm' = [adm EXCEPT ![e] = Idle]
    \/ /\ adm[e].pc # "idle"
       /\ \E pc \in {"probing", "accept"} : adm' = [adm EXCEPT ![e].pc = pc]

LEMMA AdmissionKept ==
    ASSUME CapacityTypeOK, MeasurementsTrue,
           UNCHANGED adm \/ \E e \in Executors : AdmissionGoesOn(e)
    PROVE  adm' \in [Executors -> AdmRow] /\ MeasurementsTrue'
<1>t. adm \in [Executors -> AdmRow] BY DEF CapacityTypeOK
<1>1. ASSUME NEW e \in Executors, adm' = [adm EXCEPT ![e] = Idle]
      PROVE  adm' \in [Executors -> AdmRow] /\ MeasurementsTrue'
  <2>1. Idle \in AdmRow /\ Idle.pc = "idle" BY DEF Idle, AdmRow
  <2> QED BY <1>1, <1>t, <2>1 DEF MeasurementsTrue, Needs
<1>2. ASSUME NEW e \in Executors, adm[e].pc # "idle",
             \E pc \in {"probing", "accept"} : adm' = [adm EXCEPT ![e].pc = pc]
      PROVE  adm' \in [Executors -> AdmRow] /\ MeasurementsTrue'
  <2>1. PICK pc \in {"probing", "accept"} : adm' = [adm EXCEPT ![e].pc = pc] BY <1>2
  <2>2. [adm[e] EXCEPT !.pc = pc] \in AdmRow BY <1>t DEF AdmRow
  <2>3. adm' \in [Executors -> AdmRow] BY <1>t, <2>1, <2>2
  <2>4. \A f \in Executors : /\ adm'[f].run = adm[f].run /\ adm'[f].avail = adm[f].avail
                             /\ adm'[f].seen = adm[f].seen
                             /\ adm'[f].pc # "idle" => adm[f].pc # "idle"
    BY <1>t, <1>2, <2>1 DEF AdmRow
  <2> QED BY <2>3, <2>4 DEF MeasurementsTrue, Needs
<1>3. CASE UNCHANGED adm BY <1>3, <1>t DEF MeasurementsTrue, Needs
<1> QED BY <1>1, <1>2, <1>3 DEF AdmissionGoesOn

\* The rest of the state.
RowsTyped ==
    /\ run \in [Runs -> RunStates] /\ lease \in [Runs -> LeaseRow] /\ pre \in [Executors -> PreRow]
    /\ proc \subseteq Runs /\ up \subseteq Executors /\ adopted \subseteq Runs
    /\ faults \in 0 .. MaxFaults

LEMMA InvFromParts ==
    ASSUME CapacityInv, UNCHANGED cache, UNCHANGED adm \/ \E e \in Executors : AdmissionGoesOn(e),
           RowsTyped', LimitsKept' /\ MemoryKept'
    PROVE  CapacityInv'
<1>1. adm' \in [Executors -> AdmRow] /\ MeasurementsTrue' BY AdmissionKept DEF CapacityInv
<1>2. CapacityTypeOK' BY <1>1 DEF RowsTyped, CapacityTypeOK, CapacityInv
<1>3. CacheTrue' BY DEF CapacityInv, CacheTrue, Needs
<1> QED BY <1>1, <1>2, <1>3 DEF CapacityInv

LEMMA RefreshStep == ASSUME CapacityInv, Refresh PROVE CapacityInv'
<1>1. PICK a \in 0 .. Memory - Needs(proc) : cache' = [avail |-> a, running |-> proc \cap Docker]
  BY DEF Refresh
<1>2. UNCHANGED <<run, lease, pre, adm, proc, up, adopted, faults>> BY DEF Refresh
<1>3. proc \in SUBSET Runs BY DEF CapacityInv, CapacityTypeOK
<1>4. Needs(proc) \in Nat /\ Needs(proc \cap Docker) = Needs(proc) /\ Memory \in Nat
  <2>1. (proc \cap Docker) \cap Docker = proc \cap Docker OBVIOUS
  <2> QED BY <1>3, <2>1, NeedsNat, CapacityAssumption DEF Needs
<1>5. CacheTrue' /\ a \in 0 .. Memory BY <1>1, <1>4 DEF CacheTrue, Needs
<1>6. CapacityTypeOK' BY <1>1, <1>2, <1>3, <1>5 DEF CapacityInv, CapacityTypeOK
<1>7. MeasurementsTrue' BY <1>2 DEF CapacityInv, MeasurementsTrue, Needs
<1>8. LimitsKept' /\ MemoryKept'
  BY <1>2, FewerCount DEF CapacityInv, Counted, Unexpired, Active
<1> QED BY <1>5, <1>6, <1>7, <1>8 DEF CapacityInv

LEMMA PreflightStep ==
    ASSUME CapacityInv, NEW e \in Executors,
           AcquirePreflight(e) \/ EndPreflight(e) \/ ExpirePreflight(e)
    PROVE  CapacityInv'
<1>t. /\ run \in [Runs -> RunStates] /\ lease \in [Runs -> LeaseRow] /\ pre \in [Executors -> PreRow]
      /\ adm \in [Executors -> AdmRow] /\ proc \subseteq Runs /\ up \subseteq Executors
      /\ adopted \subseteq Runs /\ faults \in 0 .. MaxFaults /\ MaxFaults \in Nat
  BY CapacityAssumption DEF CapacityInv, CapacityTypeOK
<1>1. UNCHANGED <<run, lease, proc, cache, up, adopted>>
  BY DEF AcquirePreflight, EndPreflight, ExpirePreflight
<1>2. LimitsKept' /\ MemoryKept'
  BY <1>1, FewerCount DEF CapacityInv, Counted, Unexpired, Active
<1>3. (UNCHANGED adm \/ AdmissionGoesOn(e)) /\ pre' \in [Executors -> PreRow] /\ faults' \in 0 .. MaxFaults
  <2>1. CASE AcquirePreflight(e)
    <3>1. adm[e].pc = "measured" /\ faults' = faults BY <2>1 DEF AcquirePreflight
    <3>2. adm[e].run \in Runs BY <3>1 DEF CapacityInv, MeasurementsTrue
    <3>3. AdmissionGoesOn(e) BY <2>1, <3>1 DEF AcquirePreflight, AdmissionGoesOn
    <3> DEFINE swept == [f \in Executors |->
                           IF pre[f].st = "active" /\ ~pre[f].live
                           THEN [pre[f] EXCEPT !.st = "released"] ELSE pre[f]]
    <3>4. swept \in [Executors -> PreRow] BY <1>t DEF PreRow
    <3>5. [st |-> "active", live |-> TRUE, run |-> adm[e].run] \in PreRow BY <3>2 DEF PreRow
    <3>6. pre' = pre \/ pre' = [swept EXCEPT ![e] = [st |-> "active", live |-> TRUE, run |-> adm[e].run]]
      BY <2>1 DEF AcquirePreflight
    <3> HIDE DEF swept
    <3>7. pre' \in [Executors -> PreRow] BY <1>t, <3>4, <3>5, <3>6
    <3> QED BY <1>t, <3>1, <3>3, <3>7
  <2>2. CASE EndPreflight(e)
    <3>1. adm[e].pc = "probing" /\ faults' = faults BY <2>2 DEF EndPreflight
    <3>2. AdmissionGoesOn(e) BY <2>2, <3>1 DEF EndPreflight, AdmissionGoesOn
    <3>3. [pre[e] EXCEPT !.st = "released", !.live = FALSE] \in PreRow BY <1>t DEF PreRow
    <3>4. pre' = [pre EXCEPT ![e] = [pre[e] EXCEPT !.st = "released", !.live = FALSE]]
      BY <2>2, <1>t DEF EndPreflight, PreRow
    <3> QED BY <1>t, <3>1, <3>2, <3>3, <3>4
  <2>3. CASE ExpirePreflight(e)
    <3>1. UNCHANGED adm /\ pre' = [pre EXCEPT ![e].live = FALSE] BY <2>3 DEF ExpirePreflight
    <3>2. [pre[e] EXCEPT !.live = FALSE] \in PreRow BY <1>t DEF PreRow
    <3>3. faults' \in 0 .. MaxFaults BY <2>3, <1>t DEF ExpirePreflight
    <3> QED BY <1>t, <3>1, <3>2, <3>3
  <2> QED BY <2>1, <2>2, <2>3
<1> QED BY <1>t, <1>1, <1>2, <1>3, InvFromParts DEF RowsTyped

LEMMA ReservedTyped == ASSUME NEW e \in Executors PROVE Reserved(e) \in LeaseRow
BY DEF Reserved, LeaseRow

\* reserve_delegation admits on a measurement from before the preflight.
LEMMA ReserveStep ==
    ASSUME CapacityInv, NEW e \in Executors, ReserveDelegation(e) PROVE CapacityInv'
<1> DEFINE r == adm[e].run
<1>t. /\ run \in [Runs -> RunStates] /\ lease \in [Runs -> LeaseRow] /\ pre \in [Executors -> PreRow]
      /\ adm \in [Executors -> AdmRow] /\ proc \subseteq Runs /\ up \subseteq Executors
      /\ adopted \subseteq Runs /\ faults \in 0 .. MaxFaults
  BY DEF CapacityInv, CapacityTypeOK
<1>1. /\ adm[e].pc = "accept" /\ adm' = [adm EXCEPT ![e] = Idle]
      /\ run' = [run EXCEPT ![r] = "queued"]
      /\ UNCHANGED <<pre, proc, cache, up, adopted, faults>>
      /\ \/ UNCHANGED lease
         \/ PreacceptFits(adm[e], r) /\ lease' = [lease EXCEPT ![r] = Reserved(e)]
  BY DEF ReserveDelegation
<1>2. /\ r \in Runs /\ adm[e].avail + Needs(adm[e].seen \ {r}) <= Memory
      /\ adm[e].avail \in Int /\ adm[e].seen \in SUBSET Runs
  BY <1>1, <1>t DEF CapacityInv, MeasurementsTrue, AdmRow
<1> HIDE DEF r
<1>3. run' \in [Runs -> RunStates] /\ lease' \in [Runs -> LeaseRow]
  BY <1>1, <1>2, <1>t, ReservedTyped DEF RunStates
<1>4. LimitsKept' /\ MemoryKept'
  <2>1. CASE UNCHANGED lease
    BY <1>1, <2>1, FewerCount DEF CapacityInv, Counted, Unexpired, Active
  <2>2. CASE PreacceptFits(adm[e], r) /\ lease' = [lease EXCEPT ![r] = Reserved(e)]
    <3> DEFINE A == Unexpired \ {r}
    <3>1. A \in SUBSET Runs /\ r \notin A BY ActiveTyped
    <3>2. \A q \in Runs \ {r} : lease'[q] = lease[q] BY <2>2, <1>t
    <3>3. Counted' \subseteq Counted \cup {r} /\ Counted' \subseteq A \cup {r}
      BY <3>2, <1>1 DEF Counted, Unexpired, Active
    <3>4. Covers(adm[e], r, A, Preflights(Docker)) BY <2>2 DEF PreacceptFits
    <3>5. \A p \in Pools : r \in p.members => Cardinality(A \cap p.members) < p.limit
      <4> SUFFICES ASSUME NEW p \in Pools, r \in p.members
                   PROVE  Cardinality(A \cap p.members) < p.limit
        OBVIOUS
      <4>1. Cardinality(A \cap p.members) + Preflights(p.members) < p.limit
        BY <2>2 DEF PreacceptFits
      <4>2. IsFiniteSet(A \cap p.members) BY <3>1, CapacityAssumption, FS_Subset
      <4>3. Cardinality(A \cap p.members) \in Nat /\ Preflights(p.members) \in Nat
        BY <4>2, FS_CardinalityType, PreflightsNat
      <4>4. p.limit \in Nat BY CapacityAssumption
      <4> QED BY <4>1, <4>3, <4>4
    <3> HIDE DEF A
    <3> QED BY <1>2, <3>1, <3>3, <3>4, <3>5, PreflightsNat, OneMoreCounts DEF CapacityInv
  <2> QED BY <1>1, <2>1, <2>2
<1> QED BY <1>t, <1>1, <1>3, <1>4, InvFromParts DEF RowsTyped, AdmissionGoesOn

\* acquire_host_run_lease admits on a measurement from before its transaction.
LEMMA AcquireStep == ASSUME CapacityInv, NEW e \in Executors, AcquireLease(e) PROVE CapacityInv'
<1> DEFINE r == adm[e].run
<1>t. /\ run \in [Runs -> RunStates] /\ lease \in [Runs -> LeaseRow] /\ pre \in [Executors -> PreRow]
      /\ adm \in [Executors -> AdmRow] /\ proc \subseteq Runs /\ up \subseteq Executors
      /\ adopted \subseteq Runs /\ faults \in 0 .. MaxFaults
  BY DEF CapacityInv, CapacityTypeOK
<1>1. /\ adm[e].pc = "dispatch" /\ adm' = [adm EXCEPT ![e] = Idle]
      /\ UNCHANGED <<run, pre, proc, cache, up, faults>>
      /\ \/ /\ lease' = [lease EXCEPT ![r].exec = e, ![r].live = TRUE]
            /\ adopted' = adopted \cup {r}
         \/ /\ AcquireFits(adm[e], r) /\ lease[r].st # "active"
            /\ lease' = [lease EXCEPT ![r] = Reserved(e)] /\ adopted' = adopted \ {r}
         \/ UNCHANGED <<lease, adopted>>
  BY DEF AcquireLease
<1>2. /\ r \in Runs /\ adm[e].avail + Needs(adm[e].seen \ {r}) <= Memory
      /\ adm[e].avail \in Int /\ adm[e].seen \in SUBSET Runs
  BY <1>1, <1>t DEF CapacityInv, MeasurementsTrue, AdmRow
<1> HIDE DEF r
<1>3. lease' \in [Runs -> LeaseRow] /\ adopted' \subseteq Runs /\ LimitsKept' /\ MemoryKept'
  <2>1. CASE lease' = [lease EXCEPT ![r].exec = e, ![r].live = TRUE] /\ adopted' = adopted \cup {r}
    <3>1. lease' = [lease EXCEPT ![r] = [lease[r] EXCEPT !.exec = e, !.live = TRUE]]
      BY <2>1, <1>2, <1>t DEF LeaseRow
    <3>2. [lease[r] EXCEPT !.exec = e, !.live = TRUE] \in LeaseRow
      <4>1. lease[r] \in LeaseRow /\ e \in Executors BY <1>2, <1>t
      <4>2. [lease[r] EXCEPT !.exec = e] \in LeaseRow BY <4>1 DEF LeaseRow
      <4>3. [lease[r] EXCEPT !.exec = e, !.live = TRUE]
               = [[lease[r] EXCEPT !.exec = e] EXCEPT !.live = TRUE]
        BY <4>1 DEF LeaseRow
      <4> QED BY <4>2, <4>3 DEF LeaseRow
    <3>3. \A q \in Runs \ {r} : lease'[q] = lease[q] BY <3>1, <1>t
    <3>4. Counted' \subseteq Counted BY <2>1, <3>3 DEF Counted, Unexpired, Active
    <3> QED BY <2>1, <3>1, <3>2, <3>4, <1>2, <1>t, FewerCount DEF CapacityInv
  <2>2. CASE /\ AcquireFits(adm[e], r) /\ lease[r].st # "active"
             /\ lease' = [lease EXCEPT ![r] = Reserved(e)] /\ adopted' = adopted \ {r}
    <3> DEFINE A == Active \ {r}
    <3>1. A \in SUBSET Runs /\ r \notin A /\ A = Active BY <2>2, ActiveTyped DEF Active
    <3>2. \A q \in Runs \ {r} : lease'[q] = lease[q] BY <2>2, <1>t
    <3>3. Counted' \subseteq Counted \cup {r} /\ Counted' \subseteq A \cup {r}
      BY <3>2, <2>2 DEF Counted, Unexpired, Active
    <3>4. Covers(adm[e], r, A, 0) BY <2>2 DEF AcquireFits
    <3>5. \A p \in Pools : r \in p.members => Cardinality(A \cap p.members) < p.limit
      BY <2>2, <3>1 DEF AcquireFits
    <3> HIDE DEF A
    <3>6. LimitsKept' /\ MemoryKept'
      BY <1>2, <3>1, <3>3, <3>4, <3>5, OneMoreCounts DEF CapacityInv
    <3> QED BY <2>2, <3>6, <1>2, <1>t, ReservedTyped
  <2>3. CASE UNCHANGED <<lease, adopted>>
    BY <1>t, <2>3, FewerCount DEF CapacityInv, Counted, Unexpired, Active
  <2> QED BY <1>1, <2>1, <2>2, <2>3
<1> QED BY <1>t, <1>1, <1>3, InvFromParts DEF RowsTyped, AdmissionGoesOn

-----------------------------------------------------------------------------
\* The end of runs, the heartbeat and the reconciliation

LEMMA GivenCount ==
    ASSUME CapacityInv, NEW r \in Runs,
           lease' = Given({r}) \/ (lease[r].st # "active" /\ UNCHANGED lease),
           adopted' = adopted \ {r}
    PROVE  lease' \in [Runs -> LeaseRow] /\ adopted' \subseteq Runs /\ LimitsKept' /\ MemoryKept'
<1>t. lease \in [Runs -> LeaseRow] /\ adopted \subseteq Runs BY DEF CapacityInv, CapacityTypeOK
<1>1. lease' \in [Runs -> LeaseRow]
  <2>1. \A q \in Runs : [lease[q] EXCEPT !.st = "released", !.live = FALSE, !.start = "reserved"]
                           \in LeaseRow
    BY <1>t DEF LeaseRow
  <2>2. Given({r}) \in [Runs -> LeaseRow] BY <1>t, <2>1 DEF Given
  <2> QED BY <1>t, <2>2
<1>2. lease'[r].st # "active" /\ \A q \in Runs \ {r} : lease'[q] = lease[q]
  BY <1>t DEF Given, LeaseRow
<1>3. Counted' \subseteq Counted BY <1>2 DEF Counted, Unexpired, Active
<1> QED BY <1>t, <1>1, <1>3, FewerCount DEF CapacityInv

LEMMA EndStep ==
    ASSUME CapacityInv, NEW r \in Runs,
           \/ CancelQueued(r)
           \/ \E e \in Executors : Finish(e, r) \/ Heartbeat(e, r) \/ Reconcile(e, r)
    PROVE  CapacityInv'
<1>t. RowsTyped BY DEF CapacityInv, CapacityTypeOK, RowsTyped
<1>1. UNCHANGED <<pre, adm, cache, up, faults>>
  BY DEF Finish, CancelQueued, Heartbeat, Reconcile, GiveBack
<1>2. proc' \subseteq Runs /\ run' \in [Runs -> RunStates]
  BY <1>t DEF Finish, CancelQueued, Heartbeat, Reconcile, GiveBack, RowsTyped, RunStates
<1>3. /\ lease' = Given({r}) \/ (lease[r].st # "active" /\ UNCHANGED lease)
      /\ adopted' = adopted \ {r}
  BY DEF Finish, CancelQueued, Heartbeat, Reconcile, GiveBack
<1>4. lease' \in [Runs -> LeaseRow] /\ adopted' \subseteq Runs /\ LimitsKept' /\ MemoryKept'
  BY <1>3, GivenCount
<1> QED BY <1>t, <1>1, <1>2, <1>4, InvFromParts DEF RowsTyped

LEMMA StartStep ==
    ASSUME CapacityInv, NEW e \in Executors, NEW r \in Runs, NEW c \in BOOLEAN, Start(e, r, c)
    PROVE  CapacityInv'
<1>t. RowsTyped /\ MaxFaults \in Nat
  BY CapacityAssumption DEF CapacityInv, CapacityTypeOK, RowsTyped
<1>1. /\ run' = [run EXCEPT ![r] = IF c THEN "running" ELSE "settling"]
      /\ lease' = [lease EXCEPT ![r].start = IF c THEN "confirmed" ELSE "unconfirmed"]
      /\ proc' = proc \cup {r} /\ UNCHANGED <<pre, adm, cache, up, adopted>>
  BY DEF Start
<1>2. faults' \in 0 .. MaxFaults BY <1>t DEF Start, RowsTyped
<1>3. run' \in [Runs -> RunStates] BY <1>1, <1>t DEF RowsTyped, RunStates
<1>4. lease' \in [Runs -> LeaseRow] BY <1>1, <1>t DEF RowsTyped, LeaseRow
<1>5. \A q \in Runs : lease'[q].st = lease[q].st /\ lease'[q].live = lease[q].live
  BY <1>1, <1>t DEF RowsTyped, LeaseRow
<1>6. LimitsKept' /\ MemoryKept'
  BY <1>1, <1>5, FewerCount DEF CapacityInv, Counted, Unexpired, Active
<1> QED BY <1>t, <1>1, <1>2, <1>3, <1>4, <1>6, InvFromParts DEF RowsTyped

LEMMA LeaseStep ==
    ASSUME CapacityInv, NEW r \in Runs, (\E e \in Executors : Revive(e, r)) \/ ExpireLease(r)
    PROVE  CapacityInv'
<1>t. RowsTyped /\ MaxFaults \in Nat
  BY CapacityAssumption DEF CapacityInv, CapacityTypeOK, RowsTyped
<1>1. /\ UNCHANGED <<run, pre, adm, proc, cache, up>> /\ adopted' \subseteq Runs
      /\ \/ lease' = [lease EXCEPT ![r].live = TRUE] /\ adopted' = adopted \cup {r}
         \/ lease' = [lease EXCEPT ![r].live = FALSE] /\ adopted' = adopted
  BY <1>t DEF Revive, ExpireLease, RowsTyped
<1>2. faults' \in 0 .. MaxFaults BY <1>t DEF Revive, ExpireLease, RowsTyped
<1>3. lease' \in [Runs -> LeaseRow]
  <2>1. \A b \in BOOLEAN : [lease[r] EXCEPT !.live = b] \in LeaseRow BY <1>t DEF RowsTyped, LeaseRow
  <2>2. \A b \in BOOLEAN : [lease EXCEPT ![r].live = b] = [lease EXCEPT ![r] = [lease[r] EXCEPT !.live = b]]
    BY <1>t DEF RowsTyped
  <2>3. \E b \in BOOLEAN : lease' = [lease EXCEPT ![r] = [lease[r] EXCEPT !.live = b]]
    BY <1>1, <2>2
  <2> QED BY <2>1, <2>3, <1>t DEF RowsTyped
<1>4. /\ \A q \in Runs \ {r} : lease'[q] = lease[q]
      /\ lease'[r].live => r \in adopted'
  BY <1>1, <1>t DEF RowsTyped, LeaseRow
<1>5. Counted' \subseteq Counted BY <1>1, <1>4 DEF Counted, Unexpired, Active
<1>6. LimitsKept' /\ MemoryKept' BY <1>5, FewerCount DEF CapacityInv
<1> QED BY <1>t, <1>1, <1>2, <1>3, <1>6, InvFromParts DEF RowsTyped

LEMMA ExitStep ==
    ASSUME CapacityInv,
           (\E r \in Runs : Exit(r)) \/ (\E e \in Executors : Crash(e)) \/ UNCHANGED cvars
    PROVE  CapacityInv'
<1>t. RowsTyped /\ MaxFaults \in Nat
  BY CapacityAssumption DEF CapacityInv, CapacityTypeOK, RowsTyped
<1>1. /\ UNCHANGED <<run, lease, pre, cache, adopted>>
      /\ UNCHANGED adm \/ \E e \in Executors : AdmissionGoesOn(e)
  BY DEF Exit, Crash, cvars, AdmissionGoesOn
<1>2. proc' \subseteq Runs /\ up' \subseteq Executors /\ faults' \in 0 .. MaxFaults
  BY <1>t DEF Exit, Crash, cvars, RowsTyped
<1>3. LimitsKept' /\ MemoryKept'
  BY <1>1, FewerCount DEF CapacityInv, Counted, Unexpired, Active
<1> QED BY <1>t, <1>1, <1>2, <1>3, InvFromParts DEF RowsTyped

-----------------------------------------------------------------------------
LEMMA CapacityInitInv == Init => CapacityInv
<1> SUFFICES ASSUME Init PROVE CapacityInv OBVIOUS
<1>1. Counted = {} /\ Needs({}) = 0 /\ Memory \in Nat /\ Headroom \in 0 .. Memory
  BY FS_EmptySet, CapacityAssumption DEF Init, Counted, Unexpired, Active, Needs
<1>2. CapacityTypeOK
  BY CapacityAssumption DEF Init, CapacityTypeOK, RunStates, LeaseRow, PreRow, AdmRow, Idle
<1>3. CacheTrue BY <1>1 DEF Init, CacheTrue
<1>4. MeasurementsTrue BY DEF Init, MeasurementsTrue, Idle
<1>5. LimitsKept
  <2> SUFFICES ASSUME NEW p \in Pools PROVE Cardinality(Counted \cap p.members) <= p.limit
    BY DEF LimitsKept, Counted
  <2>1. Counted \cap p.members = {} BY <1>1
  <2>2. p.limit \in Nat BY CapacityAssumption
  <2> QED BY <2>1, <2>2, FS_EmptySet
<1>6. MemoryKept BY <1>1 DEF MemoryKept, Counted
<1> QED BY <1>2, <1>3, <1>4, <1>5, <1>6 DEF CapacityInv

LEMMA CapacityInvStep == CapacityInv /\ [Next]_cvars => CapacityInv'
<1> SUFFICES ASSUME CapacityInv, [Next]_cvars PROVE CapacityInv' OBVIOUS
<1> QED BY RefreshStep, MeasureStep, StartStep, EndStep, LeaseStep, ExitStep, PreflightStep,
           ReserveStep, AcquireStep DEF Next

\* The inductive invariant, for any runs, executors, pools, memory and faults.
THEOREM CapacityCorrect == CapacitySpec => []CapacityInv
<1> QED BY CapacityInitInv, CapacityInvStep, PTL DEF CapacitySpec

\* No lane, account, tenant or repository limit is exceeded and no memory is promised twice,
\* although every admission measures before its transaction (acquire_host_run_lease,
\* reserve_preflight_capacity).
THEOREM AdmissionsFit == CapacitySpec => []AdmittedWithinLimits
<1>1. CapacityInv => AdmittedWithinLimits BY DEF CapacityInv, AdmittedWithinLimits
<1> QED BY <1>1, CapacityCorrect, PTL

-----------------------------------------------------------------------------
\* The fault controls of local QA.

Sides == Environments \cup {Inactive}
FaultScopes == {Scope(b, n, a) : b \in Boundaries, n \in Nat, a \in Nat}
ArmIdentities == {ArmIdentity(env, b, n, a) : env \in Sides, b \in Boundaries, n \in Nat, a \in Nat}
Endings == {"expired", "consumed", "cleared"}

Births == [id : ArmIdentities, expires : Nat]
ControlRows == [status : {"armed"} \cup Endings, env : Sides, scope : FaultScopes,
                ttl : Nat, expires : Nat]
ArmRows == [ref : Refs, ttl : Nat, status : {"armed"} \cup Endings]
AuditRows == [ref : Refs, action : {"armed", "effect_applied"} \cup Endings]
Fixtures == [run : Nat, artifact : Nat, selected : BOOLEAN, state : {"live", "needs_input"},
             applied : SUBSET Refs]
Directives == {NoDirective} \cup [ref : Refs, scope : FaultScopes]
Strikes == [ref : Refs, env : Sides, at : Nat, scope : FaultScopes]

\* What two processes and the history say, one by one.
QATypes ==
    /\ qnow \in Nat
    /\ svc \in Sides
    /\ cli \in Sides
    /\ fixture \in Fixtures
    /\ hand \in [Threads -> Directives]
    /\ born \in Seq(Births)
    /\ Len(born) <= MaxControls
    /\ fired \in Seq(Strikes)

\* A control is of the identity it was armed for.
Controlled(b, ctl) ==
    /\ ctl \in [Refs -> {NoControl} \cup ControlRows]
    /\ \A r \in Refs : ctl[r].status # "none" =>
          /\ r \in DOMAIN b
          /\ ctl[r].env = b[r].id.env
          /\ ctl[r].scope = b[r].id.scope
          /\ ctl[r].expires = b[r].expires

\* The ledger has one row for each control that was ever armed, and the status of the control
\* while that exists.
Recorded(b, ctl, ledger) ==
    /\ ledger \in [DOMAIN ledger -> ArmRows]
    /\ \A id \in DOMAIN ledger : ledger[id].ref \in DOMAIN b /\ b[ledger[id].ref].id = id
    /\ \A r \in DOMAIN b :
          /\ b[r].id \in DOMAIN ledger
          /\ ledger[b[r].id].ref = r
          /\ ctl[r].status # "none" => ledger[b[r].id].status = ctl[r].status

\* The audit rows of a control tell how it ended, if it did.
Told(b, ctl, rows) ==
    /\ rows \subseteq AuditRows
    /\ \A x \in rows : x.ref \in DOMAIN b
    /\ \A r \in Refs : ctl[r].status \in Endings => [ref |-> r, action |-> ctl[r].status] \in rows
    /\ \A x \in rows : x.action \in Endings /\ ctl[x.ref].status # "none"
          => x.action = ctl[x.ref].status

Tables(b, ctl, ledger, rows) == Controlled(b, ctl) /\ Recorded(b, ctl, ledger) /\ Told(b, ctl, rows)

\* A control struck if and only if it is consumed, as long as it exists.
Struck(f, r) == \E i \in DOMAIN f : f[i].ref = r
StrikesTrue(f, ctl, rows) ==
    /\ \A r \in Refs : Struck(f, r) => ctl[r].status \in {"none", "consumed"}
    /\ \A r \in Refs : ctl[r].status = "consumed" => Struck(f, r)
    /\ \A x \in rows : x.action = "effect_applied" /\ ctl[x.ref].status # "none" => Struck(f, x.ref)

\* Every control strikes once.
StruckOnce(b, f) ==
    /\ \A i \in DOMAIN f : f[i].ref \in DOMAIN b
    /\ \A i, j \in DOMAIN f : f[i].ref = f[j].ref => i = j
    /\ \A i \in DOMAIN f : /\ f[i].env = b[f[i].ref].id.env
                           /\ f[i].scope = b[f[i].ref].id.scope
                           /\ f[i].at < b[f[i].ref].expires

QAInv ==
    /\ QATypes
    /\ Tables(born, controls, qledger, trail)
    /\ StrikesTrue(fired, controls, trail)
    /\ StruckOnce(born, fired)

-----------------------------------------------------------------------------
\* Controls may take another status; nothing else of them changes.
LEMMA MarkedRows ==
    ASSUME NEW ctl \in [Refs -> {NoControl} \cup ControlRows], NEW status \in Endings,
           NEW changed \in SUBSET Refs, \A r \in changed : ctl[r].status = "armed"
    PROVE  /\ Marked(ctl, changed, status) \in [Refs -> {NoControl} \cup ControlRows]
           /\ \A r \in Refs :
                 /\ r \in changed => Marked(ctl, changed, status)[r].status = status
                 /\ r \notin changed => Marked(ctl, changed, status)[r] = ctl[r]
                 /\ Marked(ctl, changed, status)[r].scope = ctl[r].scope
                 /\ Marked(ctl, changed, status)[r].env = ctl[r].env
                 /\ Marked(ctl, changed, status)[r].expires = ctl[r].expires
<1> DEFINE C == Marked(ctl, changed, status)
<1>1. \A r \in changed : ctl[r] \in ControlRows BY DEF NoControl
<1>2. /\ \A r \in Refs \ changed : C[r] = ctl[r]
      /\ \A r \in changed : /\ C[r] \in ControlRows /\ C[r].status = status /\ C[r].env = ctl[r].env
                            /\ C[r].scope = ctl[r].scope /\ C[r].expires = ctl[r].expires
  BY <1>1 DEF Marked, ControlRows
<1>3. C = [r \in Refs |-> C[r]] BY DEF Marked
<1> HIDE DEF C
<1>4. \A r \in Refs : C[r] \in {NoControl} \cup ControlRows BY <1>2
<1>5. C \in [Refs -> {NoControl} \cup ControlRows] BY <1>3, <1>4
<1> QED BY <1>2, <1>5 DEF C

\* So may ledger rows.
LEMMA LedgerRows ==
    ASSUME NEW ledger, ledger \in [DOMAIN ledger -> ArmRows], NEW changed, NEW status \in Endings
    PROVE  /\ DOMAIN SetLedgerStatus(ledger, changed, status) = DOMAIN ledger
           /\ SetLedgerStatus(ledger, changed, status)
                 \in [DOMAIN SetLedgerStatus(ledger, changed, status) -> ArmRows]
           /\ \A id \in DOMAIN ledger :
                 /\ SetLedgerStatus(ledger, changed, status)[id].ref = ledger[id].ref
                 /\ SetLedgerStatus(ledger, changed, status)[id].status
                       = IF ledger[id].ref \in changed THEN status ELSE ledger[id].status
<1> DEFINE L == SetLedgerStatus(ledger, changed, status)
<1>1. DOMAIN L = DOMAIN ledger BY DEF SetLedgerStatus
<1>2. \A id \in DOMAIN ledger :
          /\ L[id] \in ArmRows
          /\ L[id].ref = ledger[id].ref
          /\ L[id].status = IF ledger[id].ref \in changed THEN status ELSE ledger[id].status
  <2> TAKE id \in DOMAIN ledger
  <2>1. ledger[id] \in ArmRows OBVIOUS
  <2>2. L[id] = IF ledger[id].ref \in changed THEN [ledger[id] EXCEPT !.status = status]
                ELSE ledger[id]
    BY DEF SetLedgerStatus
  <2> HIDE DEF L
  <2> QED BY <2>1, <2>2 DEF ArmRows
<1>3. L = [id \in DOMAIN L |-> L[id]] BY <1>1 DEF SetLedgerStatus
<1> HIDE DEF L
<1>4. L \in [DOMAIN L -> ArmRows] BY <1>1, <1>2, <1>3
<1> QED BY <1>1, <1>2, <1>4 DEF L

\* Armed controls may take another status, with their ledger and audit rows.
LEMMA MarkedTables ==
    ASSUME NEW b, NEW ctl, NEW ledger, NEW rows, Tables(b, ctl, ledger, rows), DOMAIN b \subseteq Refs,
           NEW changed \in SUBSET Refs, \A r \in changed : ctl[r].status = "armed",
           NEW status \in Endings
    PROVE  Tables(b, Marked(ctl, changed, status), SetLedgerStatus(ledger, changed, status),
                  rows \cup Audited(changed, status))
<1> DEFINE C == Marked(ctl, changed, status)
           L == SetLedgerStatus(ledger, changed, status)
           R == rows \cup Audited(changed, status)
<1>t. ctl \in [Refs -> {NoControl} \cup ControlRows] BY DEF Tables, Controlled
<1>2. /\ C \in [Refs -> {NoControl} \cup ControlRows]
      /\ \A r \in Refs \ changed : C[r] = ctl[r]
      /\ \A r \in changed : /\ C[r].status = status /\ C[r].env = ctl[r].env
                            /\ C[r].scope = ctl[r].scope /\ C[r].expires = ctl[r].expires
  BY <1>t, MarkedRows
<1>3. \A r \in Refs : C[r].status = IF r \in changed THEN status ELSE ctl[r].status BY <1>2
<1>l. ledger \in [DOMAIN ledger -> ArmRows] BY DEF Tables, Recorded
<1>5. /\ DOMAIN L = DOMAIN ledger
      /\ L \in [DOMAIN L -> ArmRows]
      /\ \A id \in DOMAIN ledger :
            /\ L[id].ref = ledger[id].ref
            /\ L[id].status = IF ledger[id].ref \in changed THEN status ELSE ledger[id].status
  BY <1>l, LedgerRows
<1> HIDE DEF C, L
<1>6. Controlled(b, C) 
  <2>1. Controlled(b, ctl) BY DEF Tables
  <2> QED BY <1>2, <2>1 DEF Controlled
<1>7. Recorded(b, C, L)
  <2>1. Recorded(b, ctl, ledger) BY DEF Tables
  <2>2. \A r \in DOMAIN b : C[r].status # "none" => L[b[r].id].status = C[r].status
    BY <2>1, <1>3, <1>5 DEF Recorded
  <2> QED BY <2>1, <2>2, <1>5 DEF Recorded
<1>8. Told(b, C, R)
  <2>1. Told(b, ctl, rows) /\ Controlled(b, ctl) BY DEF Tables
  <2>2. \A x \in Audited(changed, status) : x \in AuditRows /\ x.action = status /\ x.ref \in changed
    BY DEF Audited, AuditRows
  <2>3. \A r \in changed : [ref |-> r, action |-> status] \in R BY DEF Audited
  <2>4. changed \subseteq DOMAIN b BY <2>1 DEF Controlled
  <2>5. \A r \in Refs : C[r].status \in Endings => [ref |-> r, action |-> C[r].status] \in R
    BY <2>1, <2>3, <1>3 DEF Told
  <2>6. \A x \in R : x.action \in Endings /\ C[x.ref].status # "none" => x.action = C[x.ref].status
    <3> SUFFICES ASSUME NEW x \in R, x.action \in Endings, C[x.ref].status # "none"
                 PROVE  x.action = C[x.ref].status
        OBVIOUS
    <3>1. CASE x \in Audited(changed, status) BY <3>1, <2>2, <1>3
    <3>2. CASE x \in rows
      <4>1. x.ref \in Refs BY <3>2, <2>1 DEF Told, AuditRows
      <4>2. x.ref \notin changed
        BY <3>2, <2>1, <4>1 DEF Told, Endings
      <4> QED BY <4>1, <4>2, <3>2, <2>1, <1>3 DEF Told
    <3> QED BY <3>1, <3>2
  <2> HIDE DEF R
  <2>7. R \subseteq AuditRows /\ \A x \in R : x.ref \in DOMAIN b BY <2>1, <2>2, <2>4 DEF Told, R
  <2> QED BY <2>5, <2>6, <2>7 DEF Told
<1> QED BY <1>6, <1>7, <1>8 DEF Tables, C, L

\* The tables B, C, L, R are b, ctl, ledger and rows with a control r for birth.
Arms(r, birth, b, ctl, ledger, rows, B, C, L, R) ==
    /\ r \in Refs /\ r \notin DOMAIN b /\ DOMAIN b \subseteq Refs
    /\ birth.id \notin DOMAIN ledger
    /\ DOMAIN B = DOMAIN b \cup {r} /\ B[r] = birth /\ \A k \in DOMAIN b : B[k] = b[k]
    /\ C \in [Refs -> {NoControl} \cup ControlRows]
    /\ C[r].status \in {"armed", "consumed"} /\ C[r].env = birth.id.env
    /\ C[r].scope = birth.id.scope /\ C[r].expires = birth.expires
    /\ \A k \in Refs \ {r} : C[k] = ctl[k]
    /\ L \in [DOMAIN L -> ArmRows] /\ DOMAIN L = DOMAIN ledger \cup {birth.id}
    /\ L[birth.id].ref = r /\ L[birth.id].status = C[r].status
    /\ \A id \in DOMAIN ledger : L[id] = ledger[id]
    /\ R \subseteq AuditRows /\ rows \subseteq R
    /\ \A x \in R \ rows : x.ref = r /\ (x.action \in Endings => x.action = C[r].status)
    /\ C[r].status = "consumed" => [ref |-> r, action |-> "consumed"] \in R

\* A new control disturbs no other.
LEMMA ArmedTables ==
    ASSUME NEW b, NEW ctl, NEW ledger, NEW rows, Tables(b, ctl, ledger, rows),
           NEW r, NEW birth, NEW B, NEW C, NEW L, NEW R,
           Arms(r, birth, b, ctl, ledger, rows, B, C, L, R)
    PROVE  Tables(B, C, L, R)
<1> USE DEF Arms
<1>t. Controlled(b, ctl) /\ Recorded(b, ctl, ledger) /\ Told(b, ctl, rows) BY DEF Tables
<1>1. Controlled(B, C) BY <1>t DEF Controlled
<1>2. Recorded(B, C, L)
  <2>1. \A id \in DOMAIN L : L[id].ref \in DOMAIN B /\ B[L[id].ref].id = id
    BY <1>t DEF Recorded
  <2>2. \A k \in DOMAIN B :
            /\ B[k].id \in DOMAIN L
            /\ L[B[k].id].ref = k
            /\ C[k].status # "none" => L[B[k].id].status = C[k].status
    BY <1>t DEF Recorded
  <2> QED BY <2>1, <2>2 DEF Recorded
<1>3. Told(B, C, R)
  <2>1. \A x \in rows : x.ref \in DOMAIN b BY <1>t DEF Told
  <2>2. \A k \in Refs : C[k].status \in Endings => [ref |-> k, action |-> C[k].status] \in R
    BY <1>t DEF Told, Endings
  <2>3. \A x \in R : x.action \in Endings /\ C[x.ref].status # "none" => x.action = C[x.ref].status
    BY <1>t, <2>1 DEF Told
  <2>4. \A x \in R : x.ref \in DOMAIN B BY <2>1
  <2> QED BY <2>2, <2>3, <2>4 DEF Told
<1> QED BY <1>1, <1>2, <1>3 DEF Tables

\* Nothing that is not consumed strikes, and no audit row says so.
LEMMA MarkedStrikes ==
    ASSUME NEW b, NEW f, NEW ctl, NEW ledger, NEW rows, Tables(b, ctl, ledger, rows),
           StrikesTrue(f, ctl, rows), DOMAIN b \subseteq Refs,
           NEW changed \in SUBSET Refs, \A r \in changed : ctl[r].status = "armed",
           NEW status \in {"expired", "cleared"}
    PROVE  StrikesTrue(f, Marked(ctl, changed, status), rows \cup Audited(changed, status))
<1> DEFINE C == Marked(ctl, changed, status)
           R == rows \cup Audited(changed, status)
<1>0. status \in Endings BY DEF Endings
<1>t. ctl \in [Refs -> {NoControl} \cup ControlRows] BY DEF Tables, Controlled
<1>1. \A r \in Refs : C[r].status = IF r \in changed THEN status ELSE ctl[r].status
  BY <1>0, <1>t, MarkedRows
<1>2. \A x \in rows : x.ref \in Refs BY DEF Tables, Told, AuditRows
<1>3. \A x \in R : x.action = "effect_applied" => x \in rows BY DEF Audited
<1> HIDE DEF C, R
<1>4. \A r \in Refs : Struck(f, r) => C[r].status \in {"none", "consumed"} BY <1>1 DEF StrikesTrue
<1>5. \A r \in Refs : C[r].status = "consumed" => Struck(f, r) BY <1>1 DEF StrikesTrue
<1>6. \A x \in R : x.action = "effect_applied" /\ C[x.ref].status # "none" => Struck(f, x.ref)
  BY <1>1, <1>2, <1>3 DEF StrikesTrue
<1> QED BY <1>4, <1>5, <1>6 DEF StrikesTrue, C, R

\* The overdue controls of a side expire.
LEMMA ExpiredTables ==
    ASSUME QAInv, NEW env
    PROVE  /\ DOMAIN born \subseteq Refs /\ DOMAIN born = 1 .. Len(born)
           /\ Tables(born, ExpiredControls(env), ExpiredLedger(env), ExpiredTrail(env))
           /\ StrikesTrue(fired, ExpiredControls(env), ExpiredTrail(env))
           /\ \A r \in Refs : ExpiredControls(env)[r].status
                = IF r \in ExpiredNow(env) THEN "expired" ELSE controls[r].status
           /\ \A r \in Refs \ ExpiredNow(env) : ExpiredControls(env)[r] = controls[r]
           /\ \A r \in ExpiredNow(env) : ExpiredControls(env)[r].env = controls[r].env
<1>1. DOMAIN born \subseteq Refs /\ DOMAIN born = 1 .. Len(born)
  BY QAAssumption DEF QAInv, QATypes, Refs
<1>2. ExpiredNow(env) \in SUBSET Refs /\ \A r \in ExpiredNow(env) : controls[r].status = "armed"
  BY DEF ExpiredNow, Overdue
<1>3. Tables(born, controls, qledger, trail) /\ StrikesTrue(fired, controls, trail) BY DEF QAInv
<1>4. "expired" \in Endings /\ "expired" \in {"expired", "cleared"} BY DEF Endings
<1> DEFINE N == ExpiredNow(env)
<1> HIDE DEF N
<1>5. /\ Tables(born, Marked(controls, N, "expired"), SetLedgerStatus(qledger, N, "expired"),
                trail \cup Audited(N, "expired"))
  BY <1>1, <1>2, <1>3, <1>4, MarkedTables DEF N
<1>t. controls \in [Refs -> {NoControl} \cup ControlRows] BY <1>3 DEF Tables, Controlled
<1>7. /\ \A r \in Refs : Marked(controls, N, "expired")[r].status
                            = IF r \in N THEN "expired" ELSE controls[r].status
      /\ \A r \in Refs \ N : Marked(controls, N, "expired")[r] = controls[r]
      /\ \A r \in N : Marked(controls, N, "expired")[r].env = controls[r].env
  BY <1>2, <1>4, <1>t, MarkedRows DEF N
<1>6. StrikesTrue(fired, Marked(controls, N, "expired"), trail \cup Audited(N, "expired"))
  BY <1>1, <1>2, <1>3, <1>4, MarkedStrikes DEF N
<1> QED BY <1>1, <1>5, <1>6, <1>7 DEF ExpiredControls, ExpiredLedger, ExpiredTrail, N

-----------------------------------------------------------------------------
\* One step for each action.

\* An action that only lets controls expire.
LEMMA FaultsExpireStep ==
    ASSUME QAInv, NEW env, controls' = ExpiredControls(env), qledger' = ExpiredLedger(env),
           trail' = ExpiredTrail(env), UNCHANGED <<qnow, svc, cli, fixture, hand, fired, born>>
    PROVE  QAInv'
BY ExpiredTables DEF QAInv, QATypes

LEMMA ClearStep == ASSUME QAInv, NEW r \in Refs, Clear(r) PROVE QAInv'
<1>1. DOMAIN born \subseteq Refs BY ExpiredTables
<1>0. /\ {r} \in SUBSET Refs /\ \A q \in {r} : controls[q].status = "armed"
      /\ "cleared" \in Endings /\ "cleared" \in {"expired", "cleared"}
      /\ Tables(born, controls, qledger, trail) /\ StrikesTrue(fired, controls, trail)
  BY DEF QAInv, Clear, Endings
<1>3. Tables(born, controls', qledger', trail') BY <1>0, <1>1, MarkedTables DEF Clear
<1>4. StrikesTrue(fired, controls', trail') BY <1>0, <1>1, MarkedStrikes DEF Clear
<1>2. /\ Tables(born, controls', qledger', trail') /\ StrikesTrue(fired, controls', trail')
  BY <1>3, <1>4
<1> QED BY <1>2 DEF QAInv, QATypes, Clear

LEMMA RecordEffectStep == ASSUME QAInv, NEW t \in Threads, RecordEffect(t) PROVE QAInv'
<1> DEFINE x == [ref |-> hand[t].ref, action |-> "effect_applied"]
<1>1. hand[t] \in Directives /\ hand[t] # NoDirective BY DEF QAInv, QATypes, RecordEffect
<1>2. hand[t].ref \in Refs BY <1>1 DEF Directives
<1>3. hand' \in [Threads -> Directives]
  BY DEF QAInv, QATypes, RecordEffect, Directives
<1>4. CASE trail' = trail BY <1>3, <1>4 DEF QAInv, QATypes, RecordEffect
<1>5. CASE trail' = trail \cup {x} /\ controls[hand[t].ref].status = "consumed"
  <2>1. x \in AuditRows BY <1>2 DEF AuditRows
  <2>2. hand[t].ref \in DOMAIN born BY <1>2, <1>5 DEF QAInv, Tables, Controlled
  <2>3. Struck(fired, hand[t].ref) BY <1>2, <1>5 DEF QAInv, StrikesTrue
  <2>4. x.action = "effect_applied" /\ x.ref = hand[t].ref OBVIOUS
  <2> HIDE DEF x
  <2>5. Told(born, controls, trail')
    BY <1>5, <2>1, <2>2, <2>4 DEF QAInv, Tables, Told, Endings
  <2>6. StrikesTrue(fired, controls, trail') BY <1>5, <2>3, <2>4 DEF QAInv, StrikesTrue
  <2> QED BY <1>3, <2>5, <2>6 DEF QAInv, QATypes, Tables, RecordEffect
<1> QED BY <1>4, <1>5 DEF RecordEffect, Audited

LEMMA OtherSteps ==
    ASSUME QAInv,
           \/ \E env \in Sides : ReplaceCli(env) \/ RestartService(env)
           \/ AdvanceFixture
           \/ Tick
           \/ UNCHANGED qvars
    PROVE  QAInv'
<1>1. CASE \E env \in Sides : ReplaceCli(env) BY <1>1 DEF QAInv, QATypes, ReplaceCli
<1>2. CASE \E env \in Sides : RestartService(env)
  BY <1>2 DEF QAInv, QATypes, RestartService, Directives
<1>3. CASE AdvanceFixture
  <2>1. fixture \in Fixtures BY DEF QAInv, QATypes
  <2>2. CASE fixture' = [fixture EXCEPT !.run = @ + 1, !.state = "live"]
    <3>2. fixture' = [[fixture EXCEPT !.run = fixture.run + 1] EXCEPT !.state = "live"]
      BY <2>1, <2>2 DEF Fixtures
    <3>3. [fixture EXCEPT !.run = fixture.run + 1] \in Fixtures BY <2>1 DEF Fixtures
    <3>1. fixture' \in Fixtures BY <3>2, <3>3 DEF Fixtures
    <3> QED BY <1>3, <3>1 DEF QAInv, QATypes, AdvanceFixture
  <2>3. CASE fixture' = [fixture EXCEPT !.artifact = @ + 1]
    <3>1. fixture' \in Fixtures BY <2>1, <2>3 DEF Fixtures
    <3> QED BY <1>3, <3>1 DEF QAInv, QATypes, AdvanceFixture
  <2> QED BY <1>3, <2>2, <2>3 DEF AdvanceFixture
<1>4. CASE Tick BY <1>4 DEF QAInv, QATypes, Tick
<1>5. CASE UNCHANGED qvars BY <1>5 DEF QAInv, QATypes, qvars
<1> QED BY <1>1, <1>2, <1>3, <1>4, <1>5

\* The same control strikes when it is consumed, and only then.
LEMMA StrikeAdds ==
    ASSUME NEW f \in Seq(Strikes), NEW hit \in Strikes
    PROVE  /\ Append(f, hit) \in Seq(Strikes)
           /\ DOMAIN Append(f, hit) = DOMAIN f \cup {Len(f) + 1}
           /\ Len(f) + 1 \notin DOMAIN f
           /\ \A i \in DOMAIN f : Append(f, hit)[i] = f[i]
           /\ Append(f, hit)[Len(f) + 1] = hit
           /\ \A q : Struck(Append(f, hit), q) <=> Struck(f, q) \/ q = hit.ref
<1>1. /\ Append(f, hit) \in Seq(Strikes)
      /\ DOMAIN Append(f, hit) = DOMAIN f \cup {Len(f) + 1}
      /\ Len(f) + 1 \notin DOMAIN f
      /\ \A i \in DOMAIN f : Append(f, hit)[i] = f[i]
      /\ Append(f, hit)[Len(f) + 1] = hit
  BY AppendProperties
<1>2. \A q : Struck(Append(f, hit), q) <=> Struck(f, q) \/ q = hit.ref BY <1>1 DEF Struck
<1> QED BY <1>1, <1>2

LEMMA ConsumeStep ==
    ASSUME QAInv, NEW t \in Threads, NEW b \in Boundaries, NEW n \in Nat, NEW a \in Nat,
           Consume(t, b, n, a)
    PROVE  QAInv'
<1> DEFINE E == ExpiredControls(svc)
           EL == ExpiredLedger(svc)
           ET == ExpiredTrail(svc)
           scope == Scope(b, n, a)
<1>1. PICK r \in Refs :
          /\ controls[r].status = "armed" /\ controls[r].env = svc /\ controls[r].scope = scope
          /\ controls[r].expires > qnow
          /\ controls' = Marked(E, {r}, "consumed")
          /\ qledger' = SetLedgerStatus(EL, {r}, "consumed")
          /\ trail' = ET \cup Audited({r}, "consumed")
          /\ hand' = [hand EXCEPT ![t] = [ref |-> r, scope |-> scope]]
          /\ fired' = Append(fired, [ref |-> r, env |-> svc, at |-> qnow, scope |-> scope])
  BY DEF Consume, Matching, Under
<1>u. UNCHANGED <<qnow, svc, cli, fixture, born>> BY DEF Consume
<1> DEFINE hit == [ref |-> r, env |-> svc, at |-> qnow, scope |-> scope]
<1>t. /\ QATypes /\ Tables(born, E, EL, ET) /\ StrikesTrue(fired, E, ET) /\ StruckOnce(born, fired)
      /\ Controlled(born, controls)
      /\ DOMAIN born \subseteq Refs
  BY ExpiredTables DEF QAInv, Tables
<1>2. controls[r].expires \in Nat /\ r \in DOMAIN born BY <1>1, <1>t DEF Controlled, ControlRows, NoControl
<1>3. r \notin ExpiredNow(svc) BY <1>1, <1>2, <1>t DEF ExpiredNow, Overdue, QATypes
<1>4. E[r] = controls[r] BY <1>3, ExpiredTables
<1>5. scope \in FaultScopes BY DEF FaultScopes
<1>6. hit \in Strikes BY <1>5, <1>t DEF QATypes, Strikes
<1>7. hit.ref = r /\ hit.env = svc /\ hit.at = qnow /\ hit.scope = scope OBVIOUS
<1>8. hand' \in [Threads -> Directives]
  BY <1>1, <1>5, <1>t DEF QATypes, Directives
<1> HIDE DEF E, EL, ET, scope, hit
<1>9. "consumed" \in Endings /\ {r} \in SUBSET Refs /\ \A q \in {r} : E[q].status = "armed"
  BY <1>1, <1>4 DEF Endings
<1>10. Tables(born, controls', qledger', trail') BY <1>1, <1>9, <1>t, MarkedTables
<1>11. /\ \A q \in Refs \ {r} : controls'[q] = E[q]
       /\ controls'[r].status = "consumed"
  <2>1. E \in [Refs -> {NoControl} \cup ControlRows] BY <1>t DEF Tables, Controlled
  <2> QED BY <1>1, <1>9, <2>1, MarkedRows
<1>12. fired' = Append(fired, hit) /\ fired \in Seq(Strikes) BY <1>1, <1>t DEF hit, QATypes
<1>13. /\ fired' \in Seq(Strikes)
       /\ DOMAIN fired' = DOMAIN fired \cup {Len(fired) + 1}
       /\ Len(fired) + 1 \notin DOMAIN fired
       /\ \A i \in DOMAIN fired : fired'[i] = fired[i]
       /\ fired'[Len(fired) + 1] = hit
       /\ \A q : Struck(fired', q) <=> Struck(fired, q) \/ q = r
  BY <1>6, <1>7, <1>12, StrikeAdds
<1>14. StrikesTrue(fired', controls', trail')
  <2>1. \A x \in ET : x.ref \in Refs BY <1>t DEF Tables, Told, AuditRows
  <2>2. \A x \in trail' : x.action = "effect_applied" => x \in ET BY <1>1 DEF Audited
  <2>3. \A x \in trail' : x.action = "effect_applied" /\ controls'[x.ref].status # "none"
           => Struck(fired', x.ref)
    BY <2>1, <2>2, <1>11, <1>13, <1>t DEF StrikesTrue
  <2>4. \A q \in Refs : /\ Struck(fired', q) => controls'[q].status \in {"none", "consumed"}
                        /\ controls'[q].status = "consumed" => Struck(fired', q)
    BY <1>11, <1>13, <1>t DEF StrikesTrue
  <2> QED BY <2>3, <2>4 DEF StrikesTrue
<1>15. StruckOnce(born, fired')
  <2>1. ~Struck(fired, r) BY <1>1, <1>4, <1>t DEF StrikesTrue
  <2>2. \A i \in DOMAIN fired : fired[i].ref # r BY <2>1 DEF Struck
  <2>3. svc = born[r].id.env /\ scope = born[r].id.scope /\ qnow < born[r].expires
    BY <1>1, <1>2, <1>t DEF Controlled, QATypes
  <2> QED BY <2>2, <2>3, <1>2, <1>7, <1>13, <1>t DEF StruckOnce
<1> QED BY <1>8, <1>10, <1>13, <1>14, <1>15, <1>t, <1>u DEF QAInv, QATypes

LEMMA ArmNewStep ==
    ASSUME QAInv, NEW b \in Boundaries, NEW ttl \in 1 .. MaxTtl, ArmNew(b, ttl)
    PROVE  QAInv'
<1> DEFINE r == Len(born) + 1
           E == ExpiredControls(cli)
           EL == ExpiredLedger(cli)
           ET == ExpiredTrail(cli)
           c == NewControl(b, ttl)
           row == [ref |-> r, ttl |-> ttl, status |-> c.status]
           acts == IF AppliesAtOnce(b) THEN {"armed", "consumed", "effect_applied"} ELSE {"armed"}
           birth == [id |-> Identity(b), expires |-> qnow + ttl]
           hit == [ref |-> r, env |-> cli, at |-> qnow, scope |-> c.scope]
<1>1. /\ Identity(b) \notin DOMAIN qledger
      /\ Len(born) < MaxControls
      /\ controls' = [E EXCEPT ![r] = c]
      /\ qledger' = [id \in DOMAIN qledger \cup {Identity(b)} |->
                        IF id = Identity(b) THEN row ELSE EL[id]]
      /\ trail' = ET \cup {[ref |-> r, action |-> a] : a \in acts}
      /\ fixture' = IF AppliesAtOnce(b) THEN AppliedBoundary(b, r) ELSE fixture
      /\ fired' = IF AppliesAtOnce(b) THEN Append(fired, hit) ELSE fired
      /\ born' = Append(born, birth)
      /\ UNCHANGED <<qnow, svc, cli, hand>>
  BY DEF ArmNew
<1>t. /\ QATypes /\ Tables(born, E, EL, ET) /\ StrikesTrue(fired, E, ET) /\ StruckOnce(born, fired)
      /\ born \in Seq(Births) /\ fired \in Seq(Strikes) /\ DOMAIN born = 1 .. Len(born)
      /\ Len(born) \in Nat /\ fixture \in Fixtures /\ qnow \in Nat /\ cli \in Sides
  BY ExpiredTables DEF QAInv, QATypes
<1>d. DOMAIN EL = DOMAIN qledger BY DEF ExpiredLedger, SetLedgerStatus
<1>2. r \in Refs /\ r \notin DOMAIN born BY <1>1, <1>t, QAAssumption DEF Refs
<1>3. ttl \in Nat /\ qnow < qnow + ttl /\ qnow + ttl \in Nat BY <1>t, QAAssumption
<1>4. fixture.run \in Nat /\ fixture.artifact \in Nat BY <1>t DEF Fixtures
<1>5. Scope(b, fixture.run, fixture.artifact) \in FaultScopes BY <1>4 DEF FaultScopes
<1>6. Identity(b) \in ArmIdentities BY <1>4, <1>t DEF ArmIdentities, Identity
<1>7. birth \in Births BY <1>3, <1>6 DEF Births
<1>8. /\ birth.id = Identity(b) /\ birth.expires = qnow + ttl
      /\ birth.id.env = cli /\ birth.id.scope = Scope(b, fixture.run, fixture.artifact)
  BY DEF Identity, ArmIdentity
<1>9. /\ c.status = IF AppliesAtOnce(b) THEN "consumed" ELSE "armed"
      /\ c.env = cli /\ c.scope = Scope(b, fixture.run, fixture.artifact)
      /\ c.expires = qnow + ttl
  BY DEF NewControl
<1>10. c \in ControlRows BY <1>3, <1>5, <1>t DEF NewControl, ControlRows, Endings
<1>11. c.status \in {"armed", "consumed"} /\ ("consumed" \in acts <=> c.status = "consumed")
       /\ acts \in SUBSET {"armed", "consumed", "effect_applied"}
  BY <1>9
<1>12. row \in ArmRows /\ row.ref = r /\ row.status = c.status
  BY <1>2, <1>3, <1>11 DEF ArmRows, Endings
<1>13. hit \in Strikes /\ hit.ref = r /\ hit.env = cli /\ hit.at = qnow /\ hit.scope = c.scope
  BY <1>2, <1>5, <1>9, <1>t DEF Strikes
<1>14. \A x \in trail' \ ET : x.ref = r /\ x.action \in acts BY <1>1
<1> HIDE DEF E, EL, ET, c, row, acts, birth, hit
<1>16. /\ born' \in Seq(Births) /\ Len(born') <= MaxControls
       /\ DOMAIN born' = DOMAIN born \cup {r} /\ born'[r] = birth
       /\ \A k \in DOMAIN born : born'[k] = born[k]
  BY <1>1, <1>7, <1>t, AppendProperties, QAAssumption
<1> HIDE DEF r
<1>17. /\ \A k \in Refs \ {r} : controls'[k] = E[k]
       /\ controls'[r] = c
       /\ controls' \in [Refs -> {NoControl} \cup ControlRows]
  BY <1>1, <1>2, <1>10, <1>t DEF Tables, Controlled
<1>15. Tables(born', controls', qledger', trail')
  <2>1. birth.id \notin DOMAIN EL BY <1>1, <1>8, <1>d
  <2>2. /\ DOMAIN qledger' = DOMAIN EL \cup {birth.id}
        /\ qledger'[birth.id] = row
        /\ \A id \in DOMAIN EL : qledger'[id] = EL[id]
        /\ qledger' = [id \in DOMAIN qledger' |-> qledger'[id]]
    BY <1>1, <1>8, <1>d
  <2>3. \A id \in DOMAIN qledger' : qledger'[id] \in ArmRows
    BY <2>2, <1>12, <1>t DEF Tables, Recorded
  <2>4. qledger' \in [DOMAIN qledger' -> ArmRows] BY <2>2, <2>3
  <2>5. /\ trail' \in SUBSET AuditRows /\ ET \subseteq trail'
        /\ c.status = "consumed" => [ref |-> r, action |-> "consumed"] \in trail'
    <3>1. ET \subseteq AuditRows BY <1>t DEF Tables, Told
    <3>2. \A a \in acts : [ref |-> r, action |-> a] \in AuditRows
      BY <1>2, <1>11 DEF AuditRows, Endings
    <3>3. c.status = "consumed" => "consumed" \in acts BY <1>11
    <3> QED BY <1>1, <3>1, <3>2, <3>3
  <2>6. \A x \in trail' \ ET : x.ref = r /\ (x.action \in Endings => x.action = c.status)
    BY <1>11, <1>14 DEF Endings
  <2>7. DOMAIN born \subseteq Refs BY ExpiredTables
  <2>8. /\ controls'[r].status \in {"armed", "consumed"} /\ controls'[r].env = birth.id.env
        /\ controls'[r].scope = birth.id.scope /\ controls'[r].expires = birth.expires
        /\ qledger'[birth.id].ref = r /\ qledger'[birth.id].status = controls'[r].status
        /\ controls'[r].status = "consumed" => [ref |-> r, action |-> "consumed"] \in trail'
    BY <1>8, <1>9, <1>11, <1>12, <1>17, <2>2, <2>5
  <2>9. \A x \in trail' \ ET : x.ref = r /\ (x.action \in Endings => x.action = controls'[r].status)
    BY <1>17, <2>6
  <2>10. Arms(r, birth, born, E, EL, ET, born', controls', qledger', trail')
    BY <1>2, <1>16, <1>17, <2>1, <2>2, <2>4, <2>5, <2>7, <2>8, <2>9 DEF Arms
  <2> QED BY <1>t, <2>10, ArmedTables
<1>18. fixture' \in Fixtures
  <2>1. CASE ~AppliesAtOnce(b) BY <2>1, <1>1, <1>t
  <2>2. CASE AppliesAtOnce(b)
    <3>1. AppliedFailure(r) \in Fixtures BY <1>2, <1>t DEF AppliedFailure, Fixtures
    <3>2. AppliedStall(r) \in Fixtures
      <4>1. AppliedStall(r) = [AppliedFailure(r) EXCEPT !.state = "needs_input"]
        BY <1>t DEF AppliedStall, AppliedFailure, Fixtures
      <4> QED BY <3>1, <4>1 DEF Fixtures
    <3> QED BY <2>2, <3>1, <3>2, <1>1 DEF AppliedBoundary
  <2> QED BY <2>1, <2>2
<1>19. ~Struck(fired, r) BY <1>2, <1>t DEF StruckOnce, Struck
<1>20. \A x \in ET : x.ref \in Refs \ {r}
  BY <1>2, <1>t DEF Tables, Told, AuditRows
<1>21. \A i \in DOMAIN fired : fired[i].ref \in DOMAIN born BY <1>t DEF StruckOnce
<1>22. StruckOnce(born', fired) BY <1>16, <1>21, <1>t DEF StruckOnce
<1>23. CASE ~AppliesAtOnce(b)
  <2>1. fired' = fired BY <1>1, <1>23
  <2>2. c.status = "armed" BY <1>9, <1>23
  <2>3. \A x \in trail' : x.action = "effect_applied" => x \in ET
    BY <1>14, <1>23 DEF acts
  <2>4. StrikesTrue(fired, controls', trail')
    <3>1. \A q \in Refs : /\ Struck(fired, q) => controls'[q].status \in {"none", "consumed"}
                          /\ controls'[q].status = "consumed" => Struck(fired, q)
      BY <2>2, <1>17, <1>19, <1>t DEF StrikesTrue
    <3>2. \A x \in trail' : x.action = "effect_applied" /\ controls'[x.ref].status # "none"
             => Struck(fired, x.ref)
      BY <2>3, <1>17, <1>20, <1>t DEF StrikesTrue
    <3> QED BY <3>1, <3>2 DEF StrikesTrue
  <2> QED BY <2>1, <2>4, <1>1, <1>15, <1>16, <1>18, <1>22, <1>t DEF QAInv, QATypes
<1>24. CASE AppliesAtOnce(b)
  <2>1. /\ fired' \in Seq(Strikes)
        /\ DOMAIN fired' = DOMAIN fired \cup {Len(fired) + 1}
        /\ Len(fired) + 1 \notin DOMAIN fired
        /\ \A i \in DOMAIN fired : fired'[i] = fired[i]
        /\ fired'[Len(fired) + 1] = hit
        /\ \A q : Struck(fired', q) <=> Struck(fired, q) \/ q = r
    BY <1>1, <1>13, <1>24, <1>t, StrikeAdds
  <2>2. c.status = "consumed" BY <1>9, <1>24
  <2>3. \A x \in trail' : x \in ET \/ x.ref = r BY <1>14
  <2>4. StrikesTrue(fired', controls', trail')
    <3>1. \A q \in Refs : /\ Struck(fired', q) => controls'[q].status \in {"none", "consumed"}
                          /\ controls'[q].status = "consumed" => Struck(fired', q)
      BY <2>1, <2>2, <1>17, <1>t DEF StrikesTrue
    <3>2. \A x \in trail' : x.action = "effect_applied" /\ controls'[x.ref].status # "none"
             => Struck(fired', x.ref)
      BY <2>1, <2>3, <1>17, <1>20, <1>t DEF StrikesTrue
    <3> QED BY <3>1, <3>2 DEF StrikesTrue
  <2>5. StruckOnce(born', fired')
    <3>1. \A i \in DOMAIN fired : fired[i].ref # r BY <1>19 DEF Struck
    <3>2. hit.env = born'[r].id.env /\ hit.scope = born'[r].id.scope /\ hit.at < born'[r].expires
      BY <1>3, <1>8, <1>9, <1>13, <1>16
    <3>3. \A i \in DOMAIN fired' : fired'[i].ref \in DOMAIN born'
      BY <2>1, <1>13, <1>16, <1>22 DEF StruckOnce
    <3>4. \A i, j \in DOMAIN fired' : fired'[i].ref = fired'[j].ref => i = j
      BY <3>1, <2>1, <1>13, <1>22 DEF StruckOnce
    <3>5. \A i \in DOMAIN fired' : /\ fired'[i].env = born'[fired'[i].ref].id.env
                                  /\ fired'[i].scope = born'[fired'[i].ref].id.scope
                                  /\ fired'[i].at < born'[fired'[i].ref].expires
      BY <3>2, <2>1, <1>13, <1>22 DEF StruckOnce
    <3> QED BY <3>3, <3>4, <3>5 DEF StruckOnce
  <2> QED BY <2>1, <2>4, <2>5, <1>1, <1>15, <1>16, <1>18, <1>t DEF QAInv, QATypes
<1> QED BY <1>23, <1>24

LEMMA CleanupStep == ASSUME QAInv, NEW d \in Digests, Cleanup(d) PROVE QAInv'
<1> DEFINE T == Target(d)
           X == ExpiredNow(T)
           Y == ReplacedArmed(d)
           U == {r \in Refs : Under(r, T)}
<1>1. /\ controls' = [r \in Refs |-> IF r \in U THEN NoControl ELSE controls[r]]
      /\ qledger' = SetLedgerStatus(ExpiredLedger(T), Y, "cleared")
      /\ UNCHANGED <<qnow, svc, cli, fixture, hand, fired, born>>
  BY DEF Cleanup, LedgerAfterCleanup
<1>2. X \cup Y \subseteq U BY DEF ExpiredNow, Overdue, ReplacedArmed
<1>3. "expired" \in Endings /\ "cleared" \in Endings BY DEF Endings
<1>t. /\ Controlled(born, controls) /\ Recorded(born, controls, qledger)
      /\ Told(born, controls, trail) /\ StrikesTrue(fired, controls, trail)
      /\ qledger \in [DOMAIN qledger -> ArmRows]
      /\ DOMAIN born \subseteq Refs
  BY ExpiredTables DEF QAInv, Tables, Recorded
<1>10. \A x \in trail : x.ref \in Refs BY <1>t DEF Told, AuditRows
<1>9. trail' = {x \in trail : x.ref \notin U} BY <1>10 DEF Cleanup
<1> HIDE DEF T, X, Y, U
<1>4. /\ DOMAIN ExpiredLedger(T) = DOMAIN qledger
      /\ ExpiredLedger(T) \in [DOMAIN ExpiredLedger(T) -> ArmRows]
      /\ \A id \in DOMAIN qledger :
            /\ ExpiredLedger(T)[id].ref = qledger[id].ref
            /\ qledger[id].ref \notin X => ExpiredLedger(T)[id].status = qledger[id].status
  BY <1>3, <1>t, LedgerRows DEF ExpiredLedger, X
<1>5. /\ DOMAIN qledger' = DOMAIN qledger
      /\ qledger' \in [DOMAIN qledger' -> ArmRows]
      /\ \A id \in DOMAIN qledger :
            /\ qledger'[id].ref = qledger[id].ref
            /\ qledger[id].ref \notin X \cup Y => qledger'[id].status = qledger[id].status
  BY <1>1, <1>3, <1>4, LedgerRows
<1>6. /\ controls' \in [Refs -> {NoControl} \cup ControlRows]
      /\ \A r \in Refs : /\ r \in U => controls'[r].status = "none"
                         /\ r \notin U => controls'[r] = controls[r]
  BY <1>1, <1>t DEF Controlled, NoControl
<1>s. \A r \in Refs : controls'[r].status # "none" => r \notin U /\ controls'[r] = controls[r]
  BY <1>6
<1>7. Controlled(born, controls')
  <2>1. \A r \in Refs : controls'[r].status # "none" =>
          /\ r \in DOMAIN born
          /\ controls'[r].env = born[r].id.env
          /\ controls'[r].scope = born[r].id.scope
          /\ controls'[r].expires = born[r].expires
    BY <1>s, <1>t DEF Controlled
  <2> QED BY <1>6, <2>1 DEF Controlled
<1>8. Recorded(born, controls', qledger')
  <2>1. \A r \in DOMAIN born : controls'[r].status # "none"
           => qledger'[born[r].id].status = controls'[r].status
    BY <1>2, <1>5, <1>6, <1>t DEF Recorded
  <2> QED BY <2>1, <1>5, <1>t DEF Recorded
<1>11. Told(born, controls', trail')
  <2>1. \A r \in Refs : controls'[r].status \in Endings
           => [ref |-> r, action |-> controls'[r].status] \in trail'
    BY <1>6, <1>9, <1>t DEF Told, Endings
  <2> QED BY <2>1, <1>6, <1>9, <1>10, <1>t DEF Told
<1>12. StrikesTrue(fired, controls', trail')
  BY <1>6, <1>9, <1>10, <1>t DEF StrikesTrue
<1> QED BY <1>1, <1>7, <1>8, <1>11, <1>12 DEF QAInv, QATypes, Tables

LEMMA QAInitInv == ASSUME QAInit PROVE QAInv
<1> USE DEF QAInit
<1>1. QATypes BY QAAssumption DEF QATypes, Sides, Fixtures, Directives
<1>2. DOMAIN born = {} /\ DOMAIN fired = {} /\ DOMAIN qledger = {} /\ trail = {} OBVIOUS
<1>3. \A r \in Refs : controls[r] = NoControl OBVIOUS
<1>4. controls \in [Refs -> {NoControl} \cup ControlRows] OBVIOUS
<1>5. \A r \in Refs : controls[r].status = "none" BY <1>3 DEF NoControl
<1>6. Controlled(born, controls) BY <1>4, <1>5 DEF Controlled
<1>7. qledger \in [DOMAIN qledger -> ArmRows] OBVIOUS
<1>8. Recorded(born, controls, qledger) BY <1>2, <1>7 DEF Recorded
<1>9. Told(born, controls, trail) BY <1>2, <1>5 DEF Told, Endings
<1>10. StrikesTrue(fired, controls, trail) BY <1>2, <1>5 DEF StrikesTrue, Struck
<1>11. StruckOnce(born, fired) BY <1>2 DEF StruckOnce
<1> QED BY <1>1, <1>6, <1>8, <1>9, <1>10, <1>11 DEF QAInv, Tables

LEMMA QAStep == ASSUME QAInv, [QANext]_qvars PROVE QAInv'
<1>1. CASE \E b \in Boundaries, ttl \in 1 .. MaxTtl : ArmKnown(b, ttl)
  BY <1>1, FaultsExpireStep DEF ArmKnown
<1>2. CASE \E b \in Boundaries, ttl \in 1 .. MaxTtl : ArmNew(b, ttl) BY <1>2, ArmNewStep
<1>3. CASE \E t \in Threads, b \in Boundaries, n \in 1 .. fixture.run, a \in 1 .. fixture.artifact :
              ConsumeNone(t, b, n, a)
  BY <1>3, FaultsExpireStep DEF ConsumeNone
<1>4. CASE \E t \in Threads, b \in Boundaries, n \in 1 .. fixture.run, a \in 1 .. fixture.artifact :
              Consume(t, b, n, a)
  <2>1. fixture.run \in Nat /\ fixture.artifact \in Nat BY DEF QAInv, QATypes, Fixtures
  <2>2. PICK t \in Threads, b \in Boundaries, n \in 1 .. fixture.run, a \in 1 .. fixture.artifact :
               Consume(t, b, n, a)
    BY <1>4
  <2>3. n \in Nat /\ a \in Nat BY <2>1
  <2> QED BY <2>2, <2>3, ConsumeStep
<1>5. CASE \E t \in Threads : RecordEffect(t) BY <1>5, RecordEffectStep
<1>6. CASE Query BY <1>6, FaultsExpireStep DEF Query
<1>7. CASE \E r \in Refs : Clear(r) BY <1>7, ClearStep
<1>8. CASE \E d \in Digests : Cleanup(d) BY <1>8, CleanupStep
<1>9. CASE \/ \E env \in Sides : ReplaceCli(env) \/ RestartService(env)
           \/ AdvanceFixture \/ Tick \/ UNCHANGED qvars
  BY <1>9, OtherSteps
<1> QED BY <1>1, <1>2, <1>3, <1>4, <1>5, <1>6, <1>7, <1>8, <1>9 DEF QANext, Sides

\* The inductive invariant of the fault controls: what a control, its ledger row, its audit rows
\* and the history of strikes say of each other (arm, consume, record_effect, clear, query and
\* cleanup of local_qa_control.py, from a command line and from a service's threads).
THEOREM FaultsCorrect == QASpec => []QAInv
BY QAInitInv, QAStep, PTL DEF QASpec

LEMMA QAInvFaultsExact == ASSUME QAInv PROVE FaultsExact
<1>t. /\ Controlled(born, controls) /\ Recorded(born, controls, qledger) /\ Told(born, controls, trail)
      /\ StrikesTrue(fired, controls, trail) /\ StruckOnce(born, fired)
      /\ controls \in [Refs -> {NoControl} \cup ControlRows]
  BY DEF QAInv, Tables, Controlled
<1>1. FaultOnce BY <1>t DEF FaultOnce, Recorded, StruckOnce
<1>2. FaultIsExact BY <1>t DEF FaultIsExact, StruckOnce
<1>3. TrailIsTrue
  <2> SUFFICES ASSUME NEW r \in Refs, controls[r].status # "none"
               PROVE  /\ \E id \in DOMAIN qledger :
                           qledger[id].ref = r /\ qledger[id].status = controls[r].status
                      /\ {a.action : a \in {x \in trail : x.ref = r}} \ {"armed", "effect_applied"}
                           = {controls[r].status} \ {"armed"}
                      /\ [ref |-> r, action |-> "effect_applied"] \in trail =>
                           \E i \in DOMAIN fired : fired[i].ref = r
      BY DEF TrailIsTrue
  <2>1. r \in DOMAIN born BY <1>t DEF Controlled
  <2>2. \E id \in DOMAIN qledger : qledger[id].ref = r /\ qledger[id].status = controls[r].status
    BY <2>1, <1>t DEF Recorded
  <2>3. controls[r].status \in {"armed"} \cup Endings
    BY <1>t DEF NoControl, ControlRows
  <2> DEFINE A == {a.action : a \in {x \in trail : x.ref = r}}
  <2>4. \A v \in A : v \in {"armed", "effect_applied"} \/ v = controls[r].status
    BY <1>t DEF Told, AuditRows
  <2>5. controls[r].status \in Endings => controls[r].status \in A
    <3> SUFFICES ASSUME controls[r].status \in Endings PROVE controls[r].status \in A OBVIOUS
    <3> DEFINE y == [ref |-> r, action |-> controls[r].status]
    <3>1. y \in trail BY <1>t DEF Told
    <3>2. y.ref = r /\ y.action = controls[r].status OBVIOUS
    <3> HIDE DEF y
    <3> QED BY <3>1, <3>2
  <2> HIDE DEF A
  <2>6. A \ {"armed", "effect_applied"} = {controls[r].status} \ {"armed"}
    BY <2>3, <2>4, <2>5 DEF Endings
  <2>7. [ref |-> r, action |-> "effect_applied"] \in trail => \E i \in DOMAIN fired : fired[i].ref = r
    <3> DEFINE y == [ref |-> r, action |-> "effect_applied"]
    <3>1. y.ref = r /\ y.action = "effect_applied" OBVIOUS
    <3> HIDE DEF y
    <3>2. y \in trail => Struck(fired, r) BY <3>1, <1>t DEF StrikesTrue
    <3> QED BY <3>2 DEF Struck, y
  <2> QED BY <2>2, <2>6, <2>7 DEF A
<1> QED BY <1>1, <1>2, <1>3 DEF FaultsExact

\* A local QA fault strikes at most once for what it was armed for, only there and in time, and
\* the ledger and the audit rows say so, for any sessions, builds, threads, controls and clocks.
THEOREM FaultsAreExact == QASpec => []FaultsExact
BY FaultsCorrect, QAInvFaultsExact, PTL

-----------------------------------------------------------------------------
\* The circuits of provider routes.

MissionStates == {"queued", "claimed", "running", "needs_input", "completed", "failed"}
HandlerPlaces == {"select", "skip", "look", "switch", "wait", "invoke", "wait_exit", "clear",
                  "record", "quota", "rate", "switch_failed", "fail"}

CircuitRow == [open : {TRUE}, gen : Nat, t : Nat, until : Nat, last : Missions]
MissionRow == [st : MissionStates, route : Routes, att : Nat, after : Nat, locked : BOOLEAN,
               out : Outcomes \cup {""}, obs : Nat, sel : Nat, rest : Nat]
HandlerRow == [pc : HandlerPlaces, run : Missions, att : Nat, locked : BOOLEAN, until : Nat,
               t : Nat, quota : BOOLEAN]

RouteTypes ==
    /\ now \in Nat /\ stamp \in Nat
    /\ health \in [Routes -> CircuitRow \cup {Closed}]
    /\ mission \in [Missions -> MissionRow]
    /\ thread \in [Handlers -> HandlerRow \cup {NoMission}]
    /\ rest \in [Routes -> Nat]

\* A reset that was entered is over or still known to the circuit of its route.
ResetsKnown == \A x \in Routes : rest[x] <= now \/ (health[x].open /\ health[x].until >= rest[x])

\* An attempt that runs has seen no circuit, and chose its route after the resets that it knew of.
Chosen(m) == m.obs = 0 /\ m.sel >= m.rest
AttemptTrue(m) ==
    /\ m.st = "queued" => Chosen(m)
    /\ m.st = "running" => Chosen(m)
AttemptsTrue == \A r \in Missions : AttemptTrue(mission[r])

Choosing(p) == thread[p].pc \in {"select", "invoke"}

\* A thread works for an attempt that was begun.
AttemptsBegun ==
    \A p \in Handlers : thread[p] # NoMission => thread[p].att <= mission[thread[p].run].att

\* The attempt whose route is being chosen has seen no circuit yet.
ChoiceOpen ==
    \A p \in Handlers : Choosing(p) /\ Exact(p) /\ Mine(p).st = "claimed" => Chosen(Mine(p))

\* The route of an attempt is chosen by one thread.
OneChooses ==
    \A p, q \in Handlers :
        Choosing(p) /\ Choosing(q) /\ thread[p].run = thread[q].run /\ thread[p].att = thread[q].att
            => p = q

\* The circuit that a successful attempt has seen is none: nothing is closed.
NothingToClear == \A p \in Handlers : thread[p].pc = "clear" => thread[p].t = 0

RouteInv ==
    /\ RouteTypes /\ ResetsKnown /\ AttemptsTrue /\ AttemptsBegun
    /\ ChoiceOpen /\ OneChooses /\ NothingToClear

-----------------------------------------------------------------------------
\* Beyond the choice, for an attempt that was begun.
Beyond(h) ==
    /\ h \in HandlerRow /\ h.pc \notin {"select", "invoke"}
    /\ h.pc = "clear" => h.t = 0
    /\ h.att <= mission[h.run].att

\* Nobody comes to choose a route.
HandlersKeepOut ==
    \A p \in Handlers : thread'[p] = thread[p] \/ thread'[p] = NoMission \/ Beyond(thread'[p])

\* No attempt begins, and one that waits for its route waits on.
AttemptsStay ==
    \A r \in Missions :
        /\ mission'[r].att = mission[r].att
        /\ mission'[r].st = "claimed" => mission'[r] = mission[r]

\* Where nobody comes to choose a route, what was known of the choices stays true.
LEMMA NobodyChooses ==
    ASSUME RouteInv, HandlersKeepOut, AttemptsStay,
           thread' \in [Handlers -> HandlerRow \cup {NoMission}],
           mission' \in [Missions -> MissionRow]
    PROVE  AttemptsBegun' /\ ChoiceOpen' /\ OneChooses' /\ NothingToClear'
PROOF
<1>0. /\ thread \in [Handlers -> HandlerRow \cup {NoMission}]
      /\ mission \in [Missions -> MissionRow]
      BY DEF RouteInv, RouteTypes
<1>t. ASSUME NEW p \in Handlers PROVE
        /\ thread[p] # NoMission => thread[p].run \in Missions /\ thread[p].att \in Nat
        /\ thread'[p] # NoMission => thread'[p].run \in Missions /\ thread'[p].att \in Nat
      BY <1>0 DEF HandlerRow
<1>i. ASSUME NEW p \in Handlers, thread'[p].pc \in {"select", "invoke"}
      PROVE  thread'[p] = thread[p] /\ thread[p] # NoMission
      BY <1>i DEF HandlersKeepOut, NoMission, Beyond
<1>1. AttemptsBegun'
  <2> SUFFICES ASSUME NEW p \in Handlers, thread'[p] # NoMission
               PROVE  thread'[p].att <= mission'[thread'[p].run].att
      BY DEF AttemptsBegun
  <2>1. mission'[thread'[p].run].att = mission[thread'[p].run].att
        BY <1>t DEF AttemptsStay
  <2>2. CASE thread'[p] = thread[p]
        BY <2>1, <2>2 DEF RouteInv, AttemptsBegun
  <2>3. CASE Beyond(thread'[p])
        BY <2>1, <2>3 DEF Beyond
  <2> QED BY <2>2, <2>3 DEF HandlersKeepOut
<1>2. ChoiceOpen'
  <2> SUFFICES ASSUME NEW p \in Handlers, Choosing(p)', Exact(p)', Mine(p)'.st = "claimed"
               PROVE  Chosen(Mine(p)')
      BY DEF ChoiceOpen, Chosen
  <2>1. thread'[p] = thread[p] /\ thread[p].run \in Missions /\ Choosing(p)
        BY <1>i, <1>t DEF Choosing
  <2>2. Mine(p)' = Mine(p) /\ Exact(p)
        BY <2>1 DEF Mine, Exact, AttemptsStay
  <2> QED BY <2>1, <2>2 DEF RouteInv, ChoiceOpen
<1>3. OneChooses'
      BY <1>i DEF RouteInv, OneChooses, Choosing
<1>4. NothingToClear'
      BY DEF RouteInv, NothingToClear, HandlersKeepOut, Beyond, NoMission
<1> QED BY <1>1, <1>2, <1>3, <1>4

\* One thread goes beyond the choice, or is done with its attempt.
LEMMA OneHandlerGoes ==
    ASSUME RouteInv, NEW p \in Handlers, NEW row,
           thread' = [thread EXCEPT ![p] = row], row = NoMission \/ Beyond(row)
    PROVE  HandlersKeepOut /\ thread' \in [Handlers -> HandlerRow \cup {NoMission}]
PROOF
<1>1. thread \in [Handlers -> HandlerRow \cup {NoMission}]
      BY DEF RouteInv, RouteTypes
<1>2. row \in HandlerRow \cup {NoMission}
      BY DEF Beyond
<1> QED BY <1>1, <1>2 DEF HandlersKeepOut

\* A thread that is anywhere works for an attempt that was begun.
LEMMA AtWork ==
    ASSUME RouteInv, NEW p \in Handlers, thread[p].pc # "idle"
    PROVE  /\ thread[p] \in HandlerRow /\ thread[p].run \in Missions
           /\ thread[p].att <= mission[thread[p].run].att
           /\ Mine(p) = mission[thread[p].run] /\ Mine(p) \in MissionRow
PROOF
<1>1. /\ thread \in [Handlers -> HandlerRow \cup {NoMission}]
      /\ mission \in [Missions -> MissionRow]
      BY DEF RouteInv, RouteTypes
<1>2. thread[p] \in HandlerRow /\ thread[p] # NoMission
      BY <1>1 DEF NoMission
<1>3. thread[p].run \in Missions
      BY <1>2 DEF HandlerRow
<1> QED BY <1>1, <1>2, <1>3 DEF RouteInv, AttemptsBegun, Mine

\* A thread only goes to another place.
LEMMA GoesBeyond ==
    ASSUME RouteInv, NEW p \in Handlers, thread[p].pc # "idle",
           NEW pc \in HandlerPlaces \ {"select", "invoke", "clear"}, Go(p, pc)
    PROVE  HandlersKeepOut /\ thread' \in [Handlers -> HandlerRow \cup {NoMission}]
PROOF
<1>1. thread \in [Handlers -> HandlerRow \cup {NoMission}]
      BY DEF RouteInv, RouteTypes
<1> DEFINE row == [thread[p] EXCEPT !.pc = pc]
<1>2. thread' = [thread EXCEPT ![p] = row]
      BY DEF Go
<1>3. row \in HandlerRow /\ row.pc = pc /\ row.run = thread[p].run /\ row.att = thread[p].att
      BY AtWork DEF HandlerRow
<1>4. Beyond(row)
      BY <1>3, AtWork DEF Beyond
<1> HIDE DEF row
<1> QED BY <1>2, <1>4, OneHandlerGoes

\* A thread is done with its attempt.
LEMMA LeavesChoice ==
    ASSUME RouteInv, NEW p \in Handlers, Leave(p)
    PROVE  HandlersKeepOut /\ thread' \in [Handlers -> HandlerRow \cup {NoMission}]
PROOF BY OneHandlerGoes DEF Leave

\* A mission whose attempt ends, or goes on beyond the choice of its route.
LEMMA OneMissionChanges ==
    ASSUME RouteInv, NEW r \in Missions, NEW row \in MissionRow,
           mission' = [mission EXCEPT ![r] = row], row.att = mission[r].att, row.st # "claimed",
           AttemptTrue(row)
    PROVE  AttemptsStay /\ mission' \in [Missions -> MissionRow] /\ AttemptsTrue'
PROOF
<1>1. mission \in [Missions -> MissionRow]
      BY DEF RouteInv, RouteTypes
<1>2. ASSUME NEW s \in Missions PROVE mission'[s] = IF s = r THEN row ELSE mission[s]
      BY <1>1
<1>3. mission' \in [Missions -> MissionRow]
      BY <1>1
<1>4. AttemptsStay
      BY <1>2 DEF AttemptsStay
<1>5. AttemptsTrue'
      BY <1>2 DEF RouteInv, AttemptsTrue, AttemptTrue, Chosen
<1> QED BY <1>3, <1>4, <1>5

\* What an ended attempt leaves: the row of the mission as Ended and Queued write it.
EndedRow(r, st) == [mission[r] EXCEPT !.st = st, !.out = "", !.obs = 0, !.sel = 0, !.rest = 0]
QueuedRow(r, after) == [EndedRow(r, "queued") EXCEPT !.after = IF after > now THEN after ELSE 0]

\* An ended attempt leaves no trace of its choice, and the route as it is.
LEMMA EndedIs ==
    ASSUME RouteInv, NEW r \in Missions, NEW st \in MissionStates \ {"claimed"}
    PROVE  /\ Ended(r, st) = [mission EXCEPT ![r] = EndedRow(r, st)]
           /\ EndedRow(r, st) \in MissionRow /\ EndedRow(r, st).att = mission[r].att
           /\ EndedRow(r, st).st # "claimed" /\ AttemptTrue(EndedRow(r, st))
           /\ EndedRow(r, st).route = mission[r].route
PROOF
<1>1. mission \in [Missions -> MissionRow]
      BY DEF RouteInv, RouteTypes
<1>2. mission[r] \in MissionRow
      BY <1>1
<1>3. Ended(r, st) = [mission EXCEPT ![r] = EndedRow(r, st)]
      BY <1>1, <1>2 DEF Ended, EndedRow, MissionRow
<1>4. EndedRow(r, st) \in MissionRow
      BY <1>2 DEF EndedRow, MissionRow
<1>5. /\ EndedRow(r, st).att = mission[r].att /\ EndedRow(r, st).st = st
      /\ EndedRow(r, st).route = mission[r].route
      /\ EndedRow(r, st).obs = 0 /\ EndedRow(r, st).sel = 0 /\ EndedRow(r, st).rest = 0
      BY <1>2 DEF EndedRow, MissionRow
<1>6. Chosen(EndedRow(r, st))
      BY <1>5 DEF Chosen
<1> QED BY <1>3, <1>4, <1>5, <1>6 DEF AttemptTrue

\* The same of a mission that is put back into the queue.
LEMMA QueuedIs ==
    ASSUME RouteInv, NEW r \in Missions, NEW after \in Nat
    PROVE  /\ Queued(r, after) = [mission EXCEPT ![r] = QueuedRow(r, after)]
           /\ QueuedRow(r, after) \in MissionRow /\ QueuedRow(r, after).att = mission[r].att
           /\ QueuedRow(r, after).st # "claimed" /\ AttemptTrue(QueuedRow(r, after))
           /\ QueuedRow(r, after).route = mission[r].route
PROOF
<1>1. mission \in [Missions -> MissionRow]
      BY DEF RouteInv, RouteTypes
<1>2. mission[r] \in MissionRow
      BY <1>1
<1>e. "queued" \in MissionStates \ {"claimed"}
      BY DEF MissionStates
<1>3. /\ Ended(r, "queued") = [mission EXCEPT ![r] = EndedRow(r, "queued")]
      /\ EndedRow(r, "queued") \in MissionRow
      BY <1>e, EndedIs
<1>4. Ended(r, "queued")[r] = EndedRow(r, "queued")
      BY <1>1, <1>3
<1>5. Queued(r, after) = [mission EXCEPT ![r] = QueuedRow(r, after)]
      BY <1>1, <1>3, <1>4 DEF Queued, QueuedRow, MissionRow
<1>6. QueuedRow(r, after) \in MissionRow
      BY <1>3 DEF QueuedRow, MissionRow
<1>7. /\ QueuedRow(r, after).att = mission[r].att /\ QueuedRow(r, after).st = "queued"
      /\ QueuedRow(r, after).route = mission[r].route
      /\ QueuedRow(r, after).obs = 0 /\ QueuedRow(r, after).sel = 0
      /\ QueuedRow(r, after).rest = 0
      BY <1>2 DEF EndedRow, QueuedRow, MissionRow
<1>8. Chosen(QueuedRow(r, after))
      BY <1>7 DEF Chosen
<1> QED BY <1>5, <1>6, <1>7, <1>8 DEF AttemptTrue

\* Deleting the circuits whose time is over forgets no reset.
LEMMA LookingForgetsNothing ==
    ASSUME RouteInv, health' = StillOpen, UNCHANGED <<now, rest>>
    PROVE  ResetsKnown' /\ health' \in [Routes -> CircuitRow \cup {Closed}]
PROOF
<1>1. /\ health \in [Routes -> CircuitRow \cup {Closed}]
      /\ now \in Nat /\ rest \in [Routes -> Nat]
      BY DEF RouteInv, RouteTypes
<1>2. health' \in [Routes -> CircuitRow \cup {Closed}]
      BY <1>1 DEF StillOpen
<1>3. ASSUME NEW x \in Routes
      PROVE  rest'[x] <= now' \/ (health'[x].open /\ health'[x].until >= rest'[x])
  <2>1. rest[x] <= now \/ (health[x].open /\ health[x].until >= rest[x])
        BY DEF RouteInv, ResetsKnown
  <2>2. health[x] \in CircuitRow \cup {Closed} /\ rest[x] \in Nat
        BY <1>1
  <2>3. CASE health[x].open /\ health[x].until <= now
    <3>1. health[x] \in CircuitRow
          BY <2>2, <2>3 DEF Closed
    <3>2. health[x].until \in Nat
          BY <3>1 DEF CircuitRow
    <3> QED BY <1>1, <2>1, <2>2, <2>3, <3>2
  <2>4. CASE ~(health[x].open /\ health[x].until <= now)
    <3>1. health'[x] = health[x]
          BY <2>4 DEF StillOpen
    <3> QED BY <2>1, <3>1
  <2> QED BY <2>3, <2>4
<1> QED BY <1>2, <1>3 DEF ResetsKnown

\* A step that leaves the circuits alone, and no attempt at its choice.
LEMMA RouteStep ==
    ASSUME RouteInv, HandlersKeepOut, thread' \in [Handlers -> HandlerRow \cup {NoMission}],
           \/ AttemptsStay /\ AttemptsTrue' /\ mission' \in [Missions -> MissionRow]
           \/ UNCHANGED mission,
           ResetsKnown', health' \in [Routes -> CircuitRow \cup {Closed}],
           rest' \in [Routes -> Nat], now' \in Nat, stamp' \in Nat
    PROVE  RouteInv'
PROOF
<1>1. AttemptsStay /\ AttemptsTrue' /\ mission' \in [Missions -> MissionRow]
      BY DEF RouteInv, RouteTypes, AttemptsStay, AttemptsTrue, AttemptTrue, Chosen
<1>2. AttemptsBegun' /\ ChoiceOpen' /\ OneChooses' /\ NothingToClear'
      BY <1>1, NobodyChooses
<1> QED BY <1>1, <1>2 DEF RouteInv, RouteTypes

\* The circuits, the times and the clock are left alone.
LEMMA RoutesStay ==
    ASSUME RouteInv, HandlersKeepOut, thread' \in [Handlers -> HandlerRow \cup {NoMission}],
           \/ AttemptsStay /\ AttemptsTrue' /\ mission' \in [Missions -> MissionRow]
           \/ UNCHANGED mission,
           UNCHANGED <<now, stamp, health, rest>>
    PROVE  RouteInv'
PROOF BY RouteStep DEF RouteInv, RouteTypes, ResetsKnown

\* Nobody moves: a mission changes by itself.
LEMMA HandlersStay ==
    ASSUME RouteInv, UNCHANGED thread
    PROVE  HandlersKeepOut /\ thread' \in [Handlers -> HandlerRow \cup {NoMission}]
PROOF BY DEF RouteInv, RouteTypes, HandlersKeepOut

\* Steps that end an attempt.
LEMMA EndedStep ==
    ASSUME RouteInv, NEW r \in Missions, NEW st \in MissionStates \ {"claimed"},
           mission' = Ended(r, st)
    PROVE  AttemptsStay /\ AttemptsTrue' /\ mission' \in [Missions -> MissionRow]
PROOF BY EndedIs, OneMissionChanges

LEMMA QueuedStep ==
    ASSUME RouteInv, NEW r \in Missions, NEW after \in Nat, mission' = Queued(r, after)
    PROVE  AttemptsStay /\ AttemptsTrue' /\ mission' \in [Missions -> MissionRow]
PROOF BY QueuedIs, OneMissionChanges

\* Steps of one thread, in the order of the module.
LEMMA SkipStep ==
    ASSUME RouteInv, NEW p \in Handlers, Skip(p)
    PROVE  RouteInv'
PROOF
<1>1. thread[p].run \in Missions
      BY AtWork DEF Skip, At
<1>2. \/ AttemptsStay /\ AttemptsTrue' /\ mission' \in [Missions -> MissionRow]
      \/ UNCHANGED mission
      BY <1>1, EndedStep DEF Skip, MissionStates
<1> QED BY <1>2, LeavesChoice, RoutesStay DEF Skip

LEMMA FailStep ==
    ASSUME RouteInv, NEW p \in Handlers, Fail(p)
    PROVE  RouteInv'
PROOF
<1>1. thread[p].run \in Missions
      BY AtWork DEF Fail, At
<1>2. \/ AttemptsStay /\ AttemptsTrue' /\ mission' \in [Missions -> MissionRow]
      \/ UNCHANGED mission
      BY <1>1, EndedStep DEF Fail, MissionStates
<1> QED BY <1>2, LeavesChoice, RoutesStay DEF Fail

LEMMA WaitStep ==
    ASSUME RouteInv, NEW p \in Handlers, Wait(p)
    PROVE  RouteInv'
PROOF
<1>1. thread[p].run \in Missions /\ thread[p].until \in Nat
      BY AtWork DEF Wait, At, HandlerRow
<1>2. \/ AttemptsStay /\ AttemptsTrue' /\ mission' \in [Missions -> MissionRow]
      \/ UNCHANGED mission
      BY <1>1, QueuedStep DEF Wait
<1> QED BY <1>2, LeavesChoice, RoutesStay DEF Wait

\* A switched mission is put back with another route.
LEMMA SwitchedIs ==
    ASSUME RouteInv, NEW r \in Missions, mission' = Switched(r)
    PROVE  AttemptsStay /\ AttemptsTrue' /\ mission' \in [Missions -> MissionRow]
PROOF
<1>1. mission \in [Missions -> MissionRow] /\ now \in Nat
      BY DEF RouteInv, RouteTypes
<1> DEFINE row == [QueuedRow(r, now) EXCEPT !.route = "fallback"]
<1>2. /\ Queued(r, now) = [mission EXCEPT ![r] = QueuedRow(r, now)]
      /\ QueuedRow(r, now) \in MissionRow /\ QueuedRow(r, now).att = mission[r].att
      /\ QueuedRow(r, now).st # "claimed" /\ AttemptTrue(QueuedRow(r, now))
      BY <1>1, QueuedIs
<1>3. Queued(r, now)[r] = QueuedRow(r, now)
      BY <1>1, <1>2
<1>4. mission' = [mission EXCEPT ![r] = row]
      BY <1>1, <1>2, <1>3 DEF Switched
<1>5. /\ row \in MissionRow /\ row.att = QueuedRow(r, now).att /\ row.st = QueuedRow(r, now).st
      /\ row.obs = QueuedRow(r, now).obs /\ row.sel = QueuedRow(r, now).sel
      /\ row.rest = QueuedRow(r, now).rest
      BY <1>2 DEF MissionRow, Routes
<1>6. AttemptTrue(row) /\ row.att = mission[r].att /\ row.st # "claimed"
      BY <1>2, <1>5 DEF AttemptTrue, Chosen
<1> HIDE DEF row
<1> QED BY <1>4, <1>5, <1>6, OneMissionChanges

LEMMA SwitchStep ==
    ASSUME RouteInv, NEW p \in Handlers, Switch(p) \/ SwitchFailed(p)
    PROVE  RouteInv'
PROOF
<1>1. thread[p].run \in Missions /\ thread[p].pc # "idle"
      BY AtWork DEF Switch, SwitchFailed, At
<1>2. UNCHANGED <<now, stamp, health, counted, rest>>
      BY DEF Switch, SwitchFailed
<1>3. CASE mission' = Switched(thread[p].run) /\ Leave(p)
      BY <1>1, <1>2, <1>3, SwitchedIs, LeavesChoice, RoutesStay
<1>4. CASE UNCHANGED mission /\ (Go(p, "wait") \/ Go(p, "fail"))
  <2>1. HandlersKeepOut /\ thread' \in [Handlers -> HandlerRow \cup {NoMission}]
        BY <1>1, <1>4, GoesBeyond DEF HandlerPlaces
  <2> QED BY <1>2, <1>4, <2>1, RoutesStay
<1> QED BY <1>3, <1>4 DEF Switch, SwitchFailed

LEMMA GoingOn ==
    ASSUME RouteInv, NEW p \in Handlers, RateLimited(p) \/ FailedOtherwise(p) \/ Late(p)
    PROVE  RouteInv'
PROOF
<1>1. /\ thread[p].pc # "idle" /\ UNCHANGED mission
      /\ UNCHANGED <<now, stamp, health, rest>>
      BY DEF RateLimited, FailedOtherwise, Late, At
<1>2. HandlersKeepOut /\ thread' \in [Handlers -> HandlerRow \cup {NoMission}]
      BY <1>1, GoesBeyond, LeavesChoice DEF RateLimited, FailedOtherwise, Late, HandlerPlaces
<1> QED BY <1>1, <1>2, RoutesStay

LEMMA LookStep ==
    ASSUME RouteInv, NEW p \in Handlers, NEW ready \in BOOLEAN, Look(p, ready)
    PROVE  RouteInv'
PROOF
<1>1. thread[p].pc # "idle" /\ UNCHANGED mission
      BY DEF Look, At
<1>2. HandlersKeepOut /\ thread' \in [Handlers -> HandlerRow \cup {NoMission}]
      BY <1>1, GoesBeyond DEF Look, HandlerPlaces
<1>3. ResetsKnown' /\ health' \in [Routes -> CircuitRow \cup {Closed}]
      BY LookingForgetsNothing DEF Look
<1>4. now' \in Nat /\ stamp' \in Nat /\ rest' \in [Routes -> Nat]
      BY DEF Look, RouteInv, RouteTypes
<1> QED BY <1>1, <1>2, <1>3, <1>4, RouteStep

LEMMA ExhaustedStep ==
    ASSUME RouteInv, NEW p \in Handlers, NEW ready \in BOOLEAN, Exhausted(p, ready)
    PROVE  RouteInv'
PROOF
<1>1. thread[p].pc # "idle" /\ UNCHANGED mission
      BY DEF Exhausted, At
<1>2. ResetsKnown' /\ health' \in [Routes -> CircuitRow \cup {Closed}]
      BY LookingForgetsNothing DEF Exhausted
<1>3. thread[p] \in HandlerRow /\ Mine(p).route \in Routes
      BY <1>1, AtWork DEF MissionRow
<1>4. OwnCircuit(p) => health'[Mine(p).route].until \in Nat
  <2> SUFFICES ASSUME OwnCircuit(p) PROVE health'[Mine(p).route].until \in Nat
      OBVIOUS
  <2>1. health'[Mine(p).route] \in CircuitRow \cup {Closed} /\ health'[Mine(p).route].open
        BY <1>2, <1>3 DEF OwnCircuit
  <2>2. health'[Mine(p).route] \in CircuitRow
        BY <2>1 DEF Closed
  <2> QED BY <2>2 DEF CircuitRow
<1>5. PICK pc \in {"fail", "wait", "switch_failed"}, until \in Nat :
         thread' = [thread EXCEPT ![p].pc = pc, ![p].until = until]
      BY <1>4 DEF Exhausted
<1> DEFINE row == [thread[p] EXCEPT !.pc = pc, !.until = until]
<1>6. thread' = [thread EXCEPT ![p] = row]
      BY <1>5 DEF RouteInv, RouteTypes
<1>7. row \in HandlerRow /\ row.pc = pc /\ row.run = thread[p].run /\ row.att = thread[p].att
      BY <1>3, <1>5 DEF HandlerRow, HandlerPlaces
<1>8. Beyond(row)
      BY <1>1, <1>5, <1>7, AtWork DEF Beyond
<1> HIDE DEF row
<1>9. HandlersKeepOut /\ thread' \in [Handlers -> HandlerRow \cup {NoMission}]
      BY <1>6, <1>8, OneHandlerGoes
<1>10. now' \in Nat /\ stamp' \in Nat /\ rest' \in [Routes -> Nat]
      BY DEF Exhausted, RouteInv, RouteTypes
<1> QED BY <1>1, <1>2, <1>9, <1>10, RouteStep

LEMMA CompletedStep ==
    ASSUME RouteInv, NEW p \in Handlers, Completed(p)
    PROVE  RouteInv'
PROOF
<1>1. /\ thread[p] \in HandlerRow /\ thread[p].run \in Missions
      /\ thread[p].att <= mission[thread[p].run].att /\ Mine(p) = mission[thread[p].run]
      /\ Mine(p) \in MissionRow
      BY AtWork DEF Completed, At
<1>2. Mine(p).obs = 0
      BY <1>1 DEF Completed, RouteInv, AttemptsTrue, AttemptTrue, Chosen
<1> DEFINE row == [thread[p] EXCEPT !.pc = "clear", !.t = 0]
<1>3. thread' = [thread EXCEPT ![p] = row]
      BY <1>2 DEF Completed, RouteInv, RouteTypes
<1>4. row \in HandlerRow /\ row.pc = "clear" /\ row.t = 0 /\ row.run = thread[p].run /\ row.att = thread[p].att
      BY <1>1 DEF HandlerRow, HandlerPlaces
<1>5. Beyond(row)
      BY <1>1, <1>4 DEF Beyond
<1> HIDE DEF row
<1>6. HandlersKeepOut /\ thread' \in [Handlers -> HandlerRow \cup {NoMission}]
      BY <1>3, <1>5, OneHandlerGoes
<1>7. AttemptsStay /\ AttemptsTrue' /\ mission' \in [Missions -> MissionRow]
      BY <1>1, EndedStep DEF Completed, MissionStates
<1> QED BY <1>6, <1>7, RoutesStay DEF Completed

\* Nothing is cleared: a successful attempt had seen no circuit.
LEMMA ClearRouteStep ==
    ASSUME RouteInv, NEW p \in Handlers, ClearRoute(p)
    PROVE  RouteInv'
PROOF
<1>1. ~Clearable(p)
      BY DEF ClearRoute, At, Clearable, RouteInv, NothingToClear
<1>2. UNCHANGED <<now, stamp, health, counted, mission, rest>>
      BY <1>1 DEF ClearRoute
<1> QED BY <1>2, LeavesChoice, RoutesStay DEF ClearRoute

LEMMA FailedStep ==
    ASSUME RouteInv, NEW p \in Handlers, NEW d \in Cooldowns, Failed(p, d)
    PROVE  RouteInv'
PROOF
<1>1. /\ thread[p] \in HandlerRow /\ thread[p].run \in Missions
      /\ thread[p].att <= mission[thread[p].run].att
      BY AtWork DEF Failed, At
<1>2. now + d \in Nat /\ stamp + 1 \in Nat /\ stamp' = stamp + 1
      BY CooldownsAssumption DEF Failed, RouteInv, RouteTypes
<1>3. PICK until, t \in Nat, quota \in BOOLEAN :
         thread' = [thread EXCEPT ![p].pc = "record", ![p].t = t, ![p].until = until, ![p].quota = quota]
      BY <1>2 DEF Failed
<1> DEFINE row == [thread[p] EXCEPT !.pc = "record", !.t = t, !.until = until, !.quota = quota]
<1>4. thread' = [thread EXCEPT ![p] = row]
      BY <1>3 DEF RouteInv, RouteTypes
<1>5. row \in HandlerRow /\ row.pc = "record" /\ row.run = thread[p].run /\ row.att = thread[p].att
      BY <1>1, <1>3 DEF HandlerRow, HandlerPlaces
<1>6. Beyond(row)
      BY <1>1, <1>5 DEF Beyond
<1> HIDE DEF row
<1>7. HandlersKeepOut /\ thread' \in [Handlers -> HandlerRow \cup {NoMission}]
      BY <1>4, <1>6, OneHandlerGoes
<1>8. /\ UNCHANGED mission /\ ResetsKnown' /\ stamp' \in Nat /\ now' \in Nat
      /\ health' \in [Routes -> CircuitRow \cup {Closed}] /\ rest' \in [Routes -> Nat]
      BY <1>2 DEF Failed, RouteInv, RouteTypes, ResetsKnown
<1> QED BY <1>7, <1>8, RouteStep

\* The later reset is kept: what was known stays known, and the new one is known too.
LEMMA RecordStep ==
    ASSUME RouteInv, NEW p \in Handlers, Record(p)
    PROVE  RouteInv'
PROOF
<1>0. /\ health \in [Routes -> CircuitRow \cup {Closed}] /\ now \in Nat /\ stamp \in Nat
      /\ rest \in [Routes -> Nat] /\ UNCHANGED <<now, stamp, mission>>
      BY DEF Record, RouteInv, RouteTypes
<1>1. /\ thread[p] \in HandlerRow /\ thread[p].run \in Missions
      /\ thread[p].att <= mission[thread[p].run].att /\ Mine(p) \in MissionRow
      BY AtWork DEF Record, At
<1>2. PICK pc \in {"quota", "rate"} :
         thread' = [thread EXCEPT ![p].pc = pc, ![p].t = 0, ![p].quota = FALSE]
      BY DEF Record
<1> DEFINE row == [thread[p] EXCEPT !.pc = pc, !.t = 0, !.quota = FALSE]
<1>3. thread' = [thread EXCEPT ![p] = row]
      BY <1>2 DEF RouteInv, RouteTypes
<1>4. row \in HandlerRow /\ row.pc = pc /\ row.run = thread[p].run /\ row.att = thread[p].att
      BY <1>1, <1>2 DEF HandlerRow, HandlerPlaces
<1>5. Beyond(row)
      BY <1>1, <1>2, <1>4 DEF Beyond
<1> HIDE DEF row
<1>6. HandlersKeepOut /\ thread' \in [Handlers -> HandlerRow \cup {NoMission}]
      BY <1>3, <1>5, OneHandlerGoes
<1>7. CASE UNCHANGED <<health, rest>>
  <2>1. ResetsKnown'
        BY <1>0, <1>7 DEF RouteInv, ResetsKnown
  <2> QED BY <1>0, <1>6, <1>7, <2>1, RouteStep
<1>8. CASE ~UNCHANGED <<health, rest>>
  <2> DEFINE x == Mine(p).route
             h == health[x]
             named == thread[p].until
             until == NewCooldown(h, named)
             opened == [open |-> TRUE, gen |-> (IF h.open THEN h.gen ELSE 0) + 1,
                        t |-> thread[p].t, until |-> until, last |-> thread[p].run]
  <2>1. /\ x \in Routes /\ named \in Nat /\ thread[p].t \in Nat
        BY <1>1 DEF HandlerRow, MissionRow
  <2>2. /\ health' = [health EXCEPT ![x] = opened]
        /\ rest' = [rest EXCEPT ![x] = Larger(@, named)]
        BY <1>8 DEF Record
  <2>3. h.open => h.until \in Nat /\ h.gen \in Nat
    <3>1. h \in CircuitRow \cup {Closed}
          BY <1>0, <2>1
    <3> HIDE DEF h
    <3>2. h.open => h \in CircuitRow
          BY <3>1 DEF Closed
    <3> QED BY <3>2 DEF CircuitRow
  <2>4. until \in Nat /\ until >= named /\ (h.open => until >= h.until)
    <3> HIDE DEF h, named
    <3> QED BY <2>1, <2>3 DEF NewCooldown, Larger
  <2>5. (IF h.open THEN h.gen ELSE 0) + 1 \in Nat
    <3> HIDE DEF h
    <3> QED BY <2>3
  <2>6. opened \in CircuitRow /\ opened.open /\ opened.until = until
    <3> HIDE DEF until, h
    <3> QED BY <1>1, <2>1, <2>4, <2>5 DEF CircuitRow
  <2>7. rest[x] \in Nat /\ (rest[x] <= now \/ (h.open /\ h.until >= rest[x]))
        BY <1>0, <2>1 DEF RouteInv, ResetsKnown
  <2> HIDE DEF opened, until, h, named, x
  <2>8. Larger(rest[x], named) \in Nat
        /\ (Larger(rest[x], named) <= now \/ until >= Larger(rest[x], named))
        BY <1>0, <2>1, <2>3, <2>4, <2>7 DEF Larger
  <2>9. health' \in [Routes -> CircuitRow \cup {Closed}] /\ rest' \in [Routes -> Nat]
        BY <1>0, <2>1, <2>2, <2>6, <2>8
  <2>10. ASSUME NEW y \in Routes
         PROVE  rest'[y] <= now' \/ (health'[y].open /\ health'[y].until >= rest'[y])
    <3>1. CASE y = x
          BY <1>0, <2>1, <2>2, <2>6, <2>8, <3>1
    <3>2. CASE y # x
      <4>1. rest'[y] = rest[y] /\ health'[y] = health[y]
            BY <1>0, <2>1, <2>2, <3>2
      <4> QED BY <1>0, <4>1 DEF RouteInv, ResetsKnown
    <3> QED BY <3>1, <3>2
  <2>11. ResetsKnown'
         BY <2>10 DEF ResetsKnown
  <2> QED BY <1>0, <1>6, <2>9, <2>11, RouteStep
<1> QED BY <1>7, <1>8

\* A new attempt: older threads of this run work for an older one.
LEMMA ClaimStep ==
    ASSUME RouteInv, NEW p \in Handlers, NEW r \in Missions, Claim(p, r)
    PROVE  RouteInv'
PROOF
<1>0. /\ thread \in [Handlers -> HandlerRow \cup {NoMission}]
      /\ mission \in [Missions -> MissionRow] /\ mission[r] \in MissionRow
      BY DEF RouteInv, RouteTypes
<1>1. mission[r].att \in Nat /\ mission[r].locked \in BOOLEAN /\ mission[r].st = "queued"
      BY <1>0 DEF MissionRow, Claim
<1> DEFINE begun == [mission[r] EXCEPT !.st = "claimed", !.att = @ + 1, !.after = 0]
           chooser == [pc |-> "select", run |-> r, att |-> mission[r].att + 1,
                       locked |-> mission[r].locked, until |-> 0, t |-> 0, quota |-> FALSE]
<1>2. mission' = [mission EXCEPT ![r] = begun] /\ thread' = [thread EXCEPT ![p] = chooser]
      BY <1>0 DEF Claim
<1>3. /\ begun \in MissionRow /\ begun.st = "claimed" /\ begun.att = mission[r].att + 1
      /\ begun.obs = mission[r].obs /\ begun.sel = mission[r].sel /\ begun.rest = mission[r].rest
  <2>1. PICK next \in Nat : next = mission[r].att + 1
        BY <1>1
  <2>2. begun = [mission[r] EXCEPT !.st = "claimed", !.att = next, !.after = 0]
        BY <1>0, <2>1 DEF MissionRow
  <2> HIDE DEF begun
  <2>3. begun \in MissionRow
        BY <1>0, <2>2 DEF MissionRow, MissionStates
  <2>4. /\ begun.st = "claimed" /\ begun.att = next
        /\ begun.obs = mission[r].obs /\ begun.sel = mission[r].sel /\ begun.rest = mission[r].rest
        BY <1>0, <2>2 DEF MissionRow
  <2> QED BY <2>1, <2>3, <2>4
<1>4. /\ chooser \in HandlerRow /\ chooser.pc = "select" /\ chooser.run = r
      /\ chooser.att = mission[r].att + 1
      BY <1>1 DEF HandlerRow, HandlerPlaces
<1>5. Chosen(begun)
      BY <1>1, <1>3 DEF RouteInv, AttemptsTrue, AttemptTrue, Chosen
<1> HIDE DEF begun, chooser
<1>6. ASSUME NEW s \in Missions PROVE mission'[s] = IF s = r THEN begun ELSE mission[s]
      BY <1>0, <1>2
<1>7. ASSUME NEW q \in Handlers PROVE thread'[q] = IF q = p THEN chooser ELSE thread[q]
      BY <1>0, <1>2
<1>8. RouteTypes'
  <2>1. /\ mission' \in [Missions -> MissionRow]
        /\ thread' \in [Handlers -> HandlerRow \cup {NoMission}]
        BY <1>0, <1>2, <1>3, <1>4
  <2> QED BY <2>1 DEF Claim, RouteInv, RouteTypes
<1>9. AttemptsTrue'
      BY <1>3, <1>6 DEF RouteInv, AttemptsTrue, AttemptTrue, Chosen
<1>t. ASSUME NEW q \in Handlers, thread[q] # NoMission
      PROVE  /\ thread[q].run \in Missions /\ thread[q].att \in Nat
             /\ thread[q].att <= mission[thread[q].run].att
             /\ mission[thread[q].run].att \in Nat
      BY <1>0, <1>t DEF HandlerRow, MissionRow, RouteInv, AttemptsBegun
<1>10. AttemptsBegun'
  <2> SUFFICES ASSUME NEW q \in Handlers, thread'[q] # NoMission
               PROVE  thread'[q].att <= mission'[thread'[q].run].att
      BY DEF AttemptsBegun
  <2>1. CASE q = p
        BY <1>1, <1>3, <1>4, <1>6, <1>7, <2>1
  <2>2. CASE q # p
        BY <1>1, <1>3, <1>6, <1>7, <1>t, <2>2
  <2> QED BY <2>1, <2>2
<1>c. ASSUME NEW q \in Handlers, q # p, Choosing(q)'
      PROVE  /\ Choosing(q) /\ thread'[q] = thread[q] /\ thread[q] # NoMission
             /\ thread[q].run \in Missions
             /\ thread[q].run = r => thread[q].att < mission[r].att + 1
  <2>1. Choosing(q) /\ thread'[q] = thread[q] /\ thread[q] # NoMission
        BY <1>7, <1>c DEF Choosing, NoMission
  <2> QED BY <1>1, <1>t, <2>1
<1>11. ChoiceOpen'
  <2> SUFFICES ASSUME NEW q \in Handlers, Choosing(q)', Exact(q)', Mine(q)'.st = "claimed"
               PROVE  Chosen(Mine(q)')
      BY DEF ChoiceOpen, Chosen
  <2>1. CASE q = p
    <3>1. Mine(q)' = begun
          BY <1>4, <1>6, <1>7, <2>1 DEF Mine
    <3> QED BY <1>5, <3>1
  <2>2. CASE q # p
    <3>1. thread'[q] = thread[q] /\ Choosing(q) /\ thread[q].run \in Missions
          BY <1>c, <2>2
    <3>2. thread[q].run # r
      <4> SUFFICES ASSUME thread[q].run = r PROVE FALSE
          OBVIOUS
      <4>1. Mine(q)' = begun
            BY <1>6, <3>1 DEF Mine
      <4>2. begun.att = thread[q].att
            BY <3>1, <4>1 DEF Exact
      <4>3. thread[q].att < mission[r].att + 1 /\ thread[q].att \in Nat
            BY <1>c, <1>t, <2>2
      <4> QED BY <1>1, <1>3, <4>2, <4>3
    <3>3. Mine(q)' = Mine(q) /\ Exact(q)
          BY <1>6, <3>1, <3>2 DEF Mine, Exact
    <3> QED BY <3>1, <3>3 DEF RouteInv, ChoiceOpen
  <2> QED BY <2>1, <2>2
<1>12. OneChooses'
  <2> SUFFICES ASSUME NEW q \in Handlers, NEW s \in Handlers, Choosing(q)', Choosing(s)',
                      thread'[q].run = thread'[s].run, thread'[q].att = thread'[s].att
               PROVE  q = s
      BY DEF OneChooses, Choosing
  <2>n. ASSUME NEW a \in Handlers, a # p, Choosing(a)', thread'[a].run = r,
               thread'[a].att = mission[r].att + 1
        PROVE  FALSE
    <3>1. thread[a].att < mission[r].att + 1 /\ thread[a].att \in Nat /\ thread'[a] = thread[a]
          BY <1>c, <1>t, <2>n
    <3> QED BY <1>1, <2>n, <3>1
  <2>1. CASE q = p
        BY <1>4, <1>7, <2>n, <2>1
  <2>2. CASE s = p
        BY <1>4, <1>7, <2>n, <2>2
  <2>3. CASE q # p /\ s # p
        BY <1>c, <2>3 DEF RouteInv, OneChooses
  <2> QED BY <2>1, <2>2, <2>3
<1>13. NothingToClear'
      BY <1>4, <1>7 DEF RouteInv, NothingToClear
<1>14. ResetsKnown'
      BY DEF Claim, RouteInv, ResetsKnown
<1> QED BY <1>8, <1>9, <1>10, <1>11, <1>12, <1>13, <1>14 DEF RouteInv

LEMMA CollectStep ==
    ASSUME RouteInv, NEW p \in Handlers, NEW r \in Missions, Collect(p, r)
    PROVE  RouteInv'
PROOF
<1>1. mission[r] \in MissionRow
      BY DEF RouteInv, RouteTypes
<1> DEFINE row == [pc |-> "wait_exit", run |-> r, att |-> mission[r].att,
                   locked |-> mission[r].locked, until |-> 0, t |-> 0, quota |-> FALSE]
<1>2. thread' = [thread EXCEPT ![p] = row]
      BY DEF Collect
<1>3. row \in HandlerRow /\ row.pc = "wait_exit" /\ row.run = r /\ row.att = mission[r].att
      /\ mission[r].att \in Nat
      BY <1>1 DEF HandlerRow, HandlerPlaces, MissionRow
<1>4. Beyond(row)
      BY <1>3 DEF Beyond
<1> HIDE DEF row
<1>5. HandlersKeepOut /\ thread' \in [Handlers -> HandlerRow \cup {NoMission}]
      BY <1>2, <1>4, OneHandlerGoes
<1> QED BY <1>5, RoutesStay DEF Collect

LEMMA InvokeStep ==
    ASSUME RouteInv, NEW p \in Handlers, Invoke(p)
    PROVE  RouteInv'
PROOF
<1>1. /\ thread[p].run \in Missions /\ Mine(p) = mission[thread[p].run] /\ Mine(p) \in MissionRow
      /\ thread[p].pc # "idle"
      BY AtWork DEF Invoke, At
<1>2. CASE Exact(p) /\ Mine(p).st = "claimed"
  <2> DEFINE row == [Mine(p) EXCEPT !.st = "running"]
  <2>1. mission' = [mission EXCEPT ![thread[p].run] = row] /\ Go(p, "wait_exit")
        BY <1>1, <1>2 DEF Invoke, RouteInv, RouteTypes
  <2>2. Chosen(Mine(p))
        BY <1>2 DEF Invoke, At, Choosing, RouteInv, ChoiceOpen
  <2>3. /\ row \in MissionRow /\ row.st = "running" /\ row.att = Mine(p).att
        /\ row.obs = Mine(p).obs /\ row.sel = Mine(p).sel /\ row.rest = Mine(p).rest
        BY <1>1 DEF MissionRow, MissionStates
  <2>4. AttemptTrue(row)
        BY <2>2, <2>3 DEF AttemptTrue, Chosen
  <2> HIDE DEF row
  <2>5. AttemptsStay /\ AttemptsTrue' /\ mission' \in [Missions -> MissionRow]
        BY <1>1, <2>1, <2>3, <2>4, OneMissionChanges
  <2>6. HandlersKeepOut /\ thread' \in [Handlers -> HandlerRow \cup {NoMission}]
        BY <1>1, <2>1, GoesBeyond DEF HandlerPlaces
  <2> QED BY <2>5, <2>6, RoutesStay DEF Invoke
<1>3. CASE ~(Exact(p) /\ Mine(p).st = "claimed")
      BY <1>3, LeavesChoice, RoutesStay DEF Invoke
<1> QED BY <1>2, <1>3

\* A chosen route does not rest: its circuit is closed, and what was entered for it is over.
LEMMA SelectStep ==
    ASSUME RouteInv, NEW p \in Handlers, Select(p)
    PROVE  RouteInv'
PROOF
<1>0. /\ thread \in [Handlers -> HandlerRow \cup {NoMission}]
      /\ mission \in [Missions -> MissionRow]
      /\ now \in Nat /\ rest \in [Routes -> Nat] /\ UNCHANGED <<now, stamp, counted, rest>>
      /\ health' = StillOpen
      BY DEF Select, RouteInv, RouteTypes
<1> DEFINE r == thread[p].run
           x == Mine(p).route
<1>1. /\ thread[p] \in HandlerRow /\ r \in Missions /\ Mine(p) = mission[r]
      /\ thread[p].att <= mission[r].att
      /\ mission[r] \in MissionRow /\ Choosing(p)
      BY AtWork DEF Select, At, Choosing
<1>2. x \in Routes
      BY <1>1 DEF MissionRow
<1>3. ResetsKnown' /\ health' \in [Routes -> CircuitRow \cup {Closed}]
      BY <1>0, LookingForgetsNothing
<1>4. health'[x].open => health'[x].until \in Nat /\ health'[x].gen \in Nat
  <2>1. health'[x] \in CircuitRow \cup {Closed}
        BY <1>2, <1>3
  <2>2. health'[x].open => health'[x] \in CircuitRow
        BY <2>1 DEF Closed
  <2> QED BY <2>2 DEF CircuitRow
<1>5. ~health'[x].open => rest[x] <= now
      BY <1>0, <1>2, <1>3 DEF ResetsKnown
<1>6. PICK pc \in {"invoke", "skip", "look"}, until \in Nat :
         thread' = [thread EXCEPT ![p].pc = pc, ![p].until = until]
      BY <1>4 DEF Select
<1>p. health'[x].open => pc # "invoke"
  <2>1. thread'[p].pc = pc
        BY <1>0, <1>6 DEF HandlerRow
  <2>2. health'[x].open => thread'[p].pc \in {"skip", "look"}
        BY <1>0 DEF Select
  <2> QED BY <2>1, <2>2
<1> DEFINE mover == [thread[p] EXCEPT !.pc = pc, !.until = until]
<1>7. thread' = [thread EXCEPT ![p] = mover]
      BY <1>0, <1>6
<1>8. /\ mover \in HandlerRow /\ mover.pc = pc /\ mover.run = r
      /\ mover.att = thread[p].att
      BY <1>1, <1>6 DEF HandlerRow, HandlerPlaces
<1> HIDE DEF mover
<1>9. ASSUME NEW q \in Handlers PROVE thread'[q] = IF q = p THEN mover ELSE thread[q]
      BY <1>0, <1>7
<1>10. PICK row \in MissionRow :
          /\ mission' = [mission EXCEPT ![r] = row]
          /\ row.att = mission[r].att /\ row.st = mission[r].st
          /\ row = mission[r] \/ row.st = "claimed"
          /\ Exact(p) /\ row.st = "claimed" /\ pc = "invoke" => Chosen(row)
  <2>1. CASE Exact(p) /\ Mine(p).st = "claimed"
    <3>1. mission[r].obs = 0
          BY <1>1, <2>1 DEF RouteInv, ChoiceOpen, Chosen
    <3>2. PICK obs \in Nat :
             /\ mission' = [mission EXCEPT ![r].obs = obs, ![r].sel = now, ![r].rest = rest[x]]
             /\ ~health'[x].open => obs = 0
      <4> DEFINE seen == IF health'[x].open THEN health'[x].gen ELSE 0
      <4>1. mission' = Observed(p, x)
            BY DEF Select
      <4>2. Observed(p, x) =
              [mission EXCEPT ![r].obs = seen, ![r].sel = now, ![r].rest = rest[x]]
            BY <1>1, <2>1, <3>1 DEF Observed
      <4>3. seen \in Nat /\ (~health'[x].open => seen = 0)
            BY <1>4
      <4> HIDE DEF seen
      <4> QED BY <4>1, <4>2, <4>3
    <3> DEFINE row == [mission[r] EXCEPT !.obs = obs, !.sel = now, !.rest = rest[x]]
    <3>3. mission' = [mission EXCEPT ![r] = row]
          BY <1>0, <3>2
    <3>4. rest[x] \in Nat
          BY <1>0, <1>2
    <3> HIDE DEF x
    <3>5. /\ row \in MissionRow /\ row.att = mission[r].att /\ row.st = mission[r].st
          /\ row.obs = obs /\ row.sel = now /\ row.rest = rest[x]
          BY <1>0, <1>1, <3>4 DEF MissionRow
    <3> HIDE DEF row
    <3>6. pc = "invoke" => Chosen(row)
          BY <1>0, <1>5, <1>p, <3>2, <3>4, <3>5 DEF Chosen
    <3> QED BY <1>1, <2>1, <3>3, <3>5, <3>6
  <2>2. CASE ~(Exact(p) /\ Mine(p).st = "claimed")
    <3>1. mission' = mission
          BY <2>2 DEF Select, Observed
    <3>2. mission' = [mission EXCEPT ![r] = mission[r]]
          BY <1>0, <1>1, <3>1
    <3> QED BY <1>1, <2>2, <3>2
  <2> QED BY <2>1, <2>2
<1>11. ASSUME NEW s \in Missions PROVE mission'[s] = IF s = r THEN row ELSE mission[s]
      BY <1>0, <1>1, <1>10
<1>12. RouteTypes'
  <2>1. /\ mission' \in [Missions -> MissionRow]
        /\ thread' \in [Handlers -> HandlerRow \cup {NoMission}]
        BY <1>0, <1>1, <1>7, <1>8, <1>10
  <2> QED BY <1>0, <1>3, <2>1 DEF RouteInv, RouteTypes
<1>13. AttemptsTrue'
      BY <1>10, <1>11 DEF RouteInv, AttemptsTrue, AttemptTrue
<1>14. AttemptsBegun'
  <2> SUFFICES ASSUME NEW q \in Handlers, thread'[q] # NoMission
               PROVE  thread'[q].att <= mission'[thread'[q].run].att
      BY DEF AttemptsBegun
  <2>1. CASE q = p
        BY <1>1, <1>8, <1>9, <1>10, <1>11, <2>1
  <2>2. CASE q # p
    <3>1. thread'[q] = thread[q] /\ thread[q].run \in Missions
          BY <1>0, <1>9, <2>2 DEF HandlerRow
    <3>2. thread[q].att <= mission[thread[q].run].att
          BY <3>1 DEF RouteInv, AttemptsBegun
    <3> QED BY <1>10, <1>11, <3>1, <3>2
  <2> QED BY <2>1, <2>2
<1>c. ASSUME NEW q \in Handlers, Choosing(q)'
      PROVE  /\ Choosing(q) /\ thread'[q].run = thread[q].run /\ thread'[q].att = thread[q].att
             /\ thread[q].run \in Missions
  <2>1. CASE q = p
        BY <1>1, <1>8, <1>9, <2>1
  <2>2. CASE q # p
    <3>1. thread'[q] = thread[q]
          BY <1>9, <2>2
    <3>2. Choosing(q)
          BY <1>c, <3>1 DEF Choosing
    <3> QED BY <3>1, <3>2, AtWork DEF Choosing
  <2> QED BY <2>1, <2>2
<1>15. ChoiceOpen'
  <2> SUFFICES ASSUME NEW q \in Handlers, Choosing(q)', Exact(q)', Mine(q)'.st = "claimed"
               PROVE  Chosen(Mine(q)')
      BY DEF ChoiceOpen, Chosen
  <2>1. CASE thread[q].run = r
    <3>1. Mine(q)' = row
          BY <1>c, <1>11, <2>1 DEF Mine
    <3>2. thread[q].att = mission[r].att
          BY <1>c, <1>10, <3>1 DEF Exact
    <3>3. CASE q = p
      <4>1. Exact(p) /\ pc = "invoke"
            BY <1>1, <1>6, <1>8, <1>9, <3>2, <3>3 DEF Exact, Choosing
      <4> QED BY <1>10, <3>1, <4>1
    <3>4. CASE q # p
      <4>1. thread[p].att # thread[q].att
            BY <1>1, <1>c, <2>1, <3>4 DEF RouteInv, OneChooses
      <4>2. ~Exact(p)
            BY <1>1, <3>2, <4>1 DEF Exact
      <4>3. mission' = mission
            BY <4>2 DEF Select, Observed
      <4>4. Mine(q)' = Mine(q) /\ Exact(q)
            BY <1>1, <1>c, <2>1, <3>2, <4>3 DEF Mine, Exact
      <4> QED BY <1>c, <4>4 DEF RouteInv, ChoiceOpen
    <3> QED BY <3>3, <3>4
  <2>2. CASE thread[q].run # r
    <3>1. Mine(q)' = Mine(q) /\ Exact(q)
          BY <1>c, <1>11, <2>2 DEF Mine, Exact
    <3> QED BY <1>c, <3>1 DEF RouteInv, ChoiceOpen
  <2> QED BY <2>1, <2>2
<1>16. OneChooses'
      BY <1>c DEF RouteInv, OneChooses
<1>17. NothingToClear'
      BY <1>6, <1>8, <1>9 DEF RouteInv, NothingToClear
<1> QED BY <1>3, <1>12, <1>13, <1>14, <1>15, <1>16, <1>17 DEF RouteInv

\* What happens to a running mission, or to one that asked for input.
LEMMA MissionStep ==
    ASSUME RouteInv, NEW r \in Missions,
           \/ \E out \in Outcomes : ProcessExits(r, out)
           \/ ObserveLiveness(r) \/ Stalled(r) \/ Resume(r)
    PROVE  RouteInv'
PROOF
<1>0. /\ mission \in [Missions -> MissionRow] /\ mission[r] \in MissionRow /\ now \in Nat
      /\ UNCHANGED <<now, stamp, health, thread, rest>>
      BY DEF RouteInv, RouteTypes, ProcessExits, ObserveLiveness, Stalled, Resume
<1>1. ASSUME NEW out \in Outcomes, ProcessExits(r, out)
      PROVE  AttemptsStay /\ AttemptsTrue' /\ mission' \in [Missions -> MissionRow]
  <2> DEFINE row == [mission[r] EXCEPT !.out = out]
  <2>1. mission' = [mission EXCEPT ![r] = row] /\ mission[r].st = "running"
        BY <1>0, <1>1 DEF ProcessExits
  <2>2. /\ row \in MissionRow /\ row.st = mission[r].st /\ row.att = mission[r].att
        /\ row.obs = mission[r].obs /\ row.sel = mission[r].sel /\ row.rest = mission[r].rest
        BY <1>0 DEF MissionRow
  <2> HIDE DEF row
  <2>3. AttemptTrue(row)
        BY <2>2 DEF RouteInv, AttemptsTrue, AttemptTrue, Chosen
  <2> QED BY <2>1, <2>2, <2>3, OneMissionChanges
<1>2. ASSUME mission' = Attention(r)
      PROVE  AttemptsStay /\ AttemptsTrue' /\ mission' \in [Missions -> MissionRow]
  <2>1. /\ Ended(r, "needs_input") = [mission EXCEPT ![r] = EndedRow(r, "needs_input")]
        /\ EndedRow(r, "needs_input") \in MissionRow
        /\ EndedRow(r, "needs_input").att = mission[r].att
        BY EndedIs DEF MissionStates
  <2> DEFINE row == [EndedRow(r, "needs_input") EXCEPT !.locked = TRUE]
  <2>2. Ended(r, "needs_input")[r] = EndedRow(r, "needs_input")
        BY <1>0, <2>1
  <2>3. mission' = [mission EXCEPT ![r] = row]
        BY <1>0, <1>2, <2>1, <2>2 DEF Attention
  <2>4. row \in MissionRow /\ row.att = mission[r].att /\ row.st = EndedRow(r, "needs_input").st
        BY <2>1 DEF MissionRow
  <2>5. EndedRow(r, "needs_input").st = "needs_input"
        BY <1>0 DEF EndedRow, MissionRow
  <2> HIDE DEF row
  <2> QED BY <2>3, <2>4, <2>5, OneMissionChanges DEF AttemptTrue
<1>3. AttemptsStay /\ AttemptsTrue' /\ mission' \in [Missions -> MissionRow]
      BY <1>0, <1>1, <1>2, QueuedStep DEF ObserveLiveness, Stalled, Resume
<1> QED BY <1>0, <1>3, HandlersStay, RoutesStay

\* What the crash puts back is queued; nobody chooses any more.
LEMMA RoutesCrashStep ==
    ASSUME RouteInv, RoutesCrash
    PROVE  RouteInv'
PROOF
<1>0. mission \in [Missions -> MissionRow] /\ now \in Nat
      BY DEF RouteInv, RouteTypes
<1>1. HandlersKeepOut /\ thread' \in [Handlers -> HandlerRow \cup {NoMission}]
      BY DEF RoutesCrash, HandlersKeepOut
<1>2. ASSUME NEW r \in Missions
      PROVE  /\ mission'[r] \in MissionRow /\ mission'[r].att = mission[r].att
             /\ mission'[r].st # "claimed" /\ AttemptTrue(mission'[r])
  <2>1. CASE mission[r].st = "claimed"
    <3>1. /\ Queued(r, now) = [mission EXCEPT ![r] = QueuedRow(r, now)]
          /\ QueuedRow(r, now) \in MissionRow /\ QueuedRow(r, now).att = mission[r].att
          /\ QueuedRow(r, now).st # "claimed" /\ AttemptTrue(QueuedRow(r, now))
          BY <1>0, QueuedIs
    <3>2. mission'[r] = QueuedRow(r, now)
          BY <1>0, <2>1, <3>1 DEF RoutesCrash
    <3> QED BY <3>1, <3>2
  <2>2. CASE mission[r].st # "claimed"
    <3>1. mission'[r] = mission[r]
          BY <2>2 DEF RoutesCrash
    <3> QED BY <1>0, <2>2, <3>1 DEF RouteInv, AttemptsTrue
  <2> QED BY <2>1, <2>2
<1>3. mission' \in [Missions -> MissionRow]
  <2>1. DOMAIN mission' = Missions /\ mission' = [r \in Missions |-> mission'[r]]
        BY DEF RoutesCrash
  <2> QED BY <1>2, <2>1
<1>4. AttemptsStay /\ AttemptsTrue'
      BY <1>2 DEF AttemptsStay, AttemptsTrue
<1> QED BY <1>1, <1>3, <1>4, RoutesStay DEF RoutesCrash

LEMMA TimeStep ==
    ASSUME RouteInv, TimePasses
    PROVE  RouteInv'
PROOF
<1>1. /\ now \in Nat /\ now' = now + 1 /\ rest \in [Routes -> Nat]
      /\ UNCHANGED <<stamp, health, counted, mission, thread, rest>>
      BY DEF TimePasses, RouteInv, RouteTypes
<1>2. ResetsKnown'
      BY <1>1 DEF RouteInv, ResetsKnown
<1>3. /\ now' \in Nat /\ stamp' \in Nat /\ rest' \in [Routes -> Nat]
      /\ health' \in [Routes -> CircuitRow \cup {Closed}]
      BY <1>1 DEF RouteInv, RouteTypes
<1> QED BY <1>1, <1>2, <1>3, HandlersStay, RouteStep

RouteStays == \A r \in Missions : mission'[r].route = mission[r].route

\* Whoever ends or delays an attempt leaves the route as it is.
LEMMA EndedKeepsRoute ==
    ASSUME RouteInv, NEW r \in Missions, NEW st \in MissionStates \ {"claimed"},
           mission' = Ended(r, st)
    PROVE  RouteStays
PROOF
<1>1. mission' = [mission EXCEPT ![r] = EndedRow(r, st)] /\ EndedRow(r, st).route = mission[r].route
      BY EndedIs
<1> QED BY <1>1 DEF RouteStays, RouteInv, RouteTypes

LEMMA QueuedKeepsRoute ==
    ASSUME RouteInv, NEW r \in Missions, NEW after \in Nat, mission' = Queued(r, after)
    PROVE  RouteStays
PROOF
<1>1. /\ mission' = [mission EXCEPT ![r] = QueuedRow(r, after)]
      /\ QueuedRow(r, after).route = mission[r].route
      BY QueuedIs
<1> QED BY <1>1 DEF RouteStays, RouteInv, RouteTypes

\* Only the transaction of the switch changes a route.
LEMMA SwitchIsOnce ==
    ASSUME RouteInv, NEW p \in Handlers, Switch(p) \/ SwitchFailed(p)
    PROVE  RouteOnce
PROOF
<1>0. mission \in [Missions -> MissionRow] /\ now \in Nat
      BY DEF RouteInv, RouteTypes
<1> DEFINE r == thread[p].run
<1>1. r \in Missions
      BY AtWork DEF Switch, SwitchFailed, At
<1>2. CASE Switchable(r)
  <2>1. mission' = [Queued(r, now) EXCEPT ![r].route = "fallback"]
        BY <1>2 DEF Switch, SwitchFailed, Switched
  <2>2. Queued(r, now) = [mission EXCEPT ![r] = QueuedRow(r, now)]
        BY <1>0, <1>1, QueuedIs
  <2>3. \A s \in Missions : s # r => mission'[s] = mission[s]
        BY <1>0, <2>1, <2>2
  <2> QED BY <1>2, <2>3 DEF RouteOnce, Switchable
<1>3. CASE ~Switchable(r)
      BY <1>3 DEF Switch, SwitchFailed, RouteOnce
<1> QED BY <1>2, <1>3

\* No other step changes a route.
LEMMA RouteOnceStep ==
    ASSUME RouteInv, RouteNext
    PROVE  RouteOnce
PROOF
<1>0. mission \in [Missions -> MissionRow] /\ now \in Nat
      BY DEF RouteInv, RouteTypes
<1>s. ASSUME RouteStays PROVE RouteOnce
      BY <1>s DEF RouteStays, RouteOnce
<1>u. ASSUME UNCHANGED mission PROVE RouteOnce
      BY <1>u DEF RouteOnce
<1>1. ASSUME NEW p \in Handlers, NEW r \in Missions, Claim(p, r) PROVE RouteOnce
  <2>1. PICK att, after :
           mission' = [mission EXCEPT ![r].st = "claimed", ![r].att = att, ![r].after = after]
        BY <1>1 DEF Claim
  <2> DEFINE row == [mission[r] EXCEPT !.st = "claimed", !.att = att, !.after = after]
  <2>2. mission' = [mission EXCEPT ![r] = row]
        BY <1>0, <2>1
  <2>3. row.route = mission[r].route
        BY <1>0 DEF MissionRow
  <2> HIDE DEF row
  <2>4. RouteStays
        BY <1>0, <2>2, <2>3 DEF RouteStays
  <2> QED BY <1>s, <2>4
<1>2. ASSUME NEW p \in Handlers, Select(p) PROVE RouteOnce
  <2> DEFINE r == thread[p].run
  <2>r. r \in Missions
        BY <1>2, AtWork DEF Select, At
  <2>1. PICK obs, sel, named :
           \/ UNCHANGED mission
           \/ mission' = [mission EXCEPT ![r].obs = obs, ![r].sel = sel, ![r].rest = named]
        BY <1>2 DEF Select, Observed
  <2> DEFINE row == [mission[r] EXCEPT !.obs = obs, !.sel = sel, !.rest = named]
  <2>2. UNCHANGED mission \/ mission' = [mission EXCEPT ![r] = row]
        BY <1>0, <2>1
  <2>3. row.route = mission[r].route
        BY <1>0, <2>r DEF MissionRow
  <2> HIDE DEF row
  <2>4. RouteStays
        BY <1>0, <2>2, <2>3 DEF RouteStays
  <2> QED BY <1>s, <2>4
<1>3. ASSUME NEW p \in Handlers, Skip(p) \/ Fail(p) \/ Completed(p) PROVE RouteOnce
  <2>1. thread[p].run \in Missions
        BY <1>3, AtWork DEF Skip, Fail, Completed, At
  <2> QED BY <1>3, <1>s, <1>u, <2>1, EndedKeepsRoute DEF Skip, Fail, Completed, MissionStates
<1>4. ASSUME NEW p \in Handlers, Wait(p) PROVE RouteOnce
  <2>1. thread[p].run \in Missions /\ thread[p].until \in Nat
        BY <1>4, AtWork DEF Wait, At, HandlerRow
  <2> QED BY <1>4, <1>s, <1>u, <2>1, QueuedKeepsRoute DEF Wait
<1>5. ASSUME NEW p \in Handlers, Invoke(p) PROVE RouteOnce
  <2> DEFINE r == thread[p].run
             row == [mission[r] EXCEPT !.st = "running"]
  <2>r. r \in Missions
        BY <1>5, AtWork DEF Invoke, At
  <2>1. UNCHANGED mission \/ mission' = [mission EXCEPT ![r] = row]
        BY <1>0, <1>5 DEF Invoke
  <2>2. row.route = mission[r].route
        BY <1>0, <2>r DEF MissionRow
  <2> HIDE DEF row
  <2>3. RouteStays
        BY <1>0, <2>1, <2>2 DEF RouteStays
  <2> QED BY <1>s, <2>3
<1>6. ASSUME NEW r \in Missions, NEW out \in Outcomes, ProcessExits(r, out) PROVE RouteOnce
  <2>1. mission' = [mission EXCEPT ![r].out = out]
        BY <1>6 DEF ProcessExits
  <2>2. RouteStays
        BY <1>0, <2>1 DEF RouteStays, MissionRow
  <2> QED BY <1>s, <2>2
<1>7. ASSUME NEW r \in Missions, ObserveLiveness(r) \/ Stalled(r) PROVE RouteOnce
  <2>1. /\ Ended(r, "needs_input") = [mission EXCEPT ![r] = EndedRow(r, "needs_input")]
        /\ EndedRow(r, "needs_input").route = mission[r].route
        /\ EndedRow(r, "needs_input") \in MissionRow
        BY EndedIs DEF MissionStates
  <2>2. mission' = [Ended(r, "needs_input") EXCEPT ![r].locked = TRUE]
        BY <1>7 DEF ObserveLiveness, Stalled, Attention
  <2>3. RouteStays
        BY <1>0, <2>1, <2>2 DEF RouteStays, MissionRow
  <2> QED BY <1>s, <2>3
<1>8. ASSUME NEW r \in Missions, Resume(r) PROVE RouteOnce
      BY <1>0, <1>8, <1>s, QueuedKeepsRoute DEF Resume
<1>9. ASSUME RoutesCrash PROVE RouteOnce
  <2>1. ASSUME NEW r \in Missions PROVE mission'[r].route = mission[r].route
    <3>1. /\ Queued(r, now) = [mission EXCEPT ![r] = QueuedRow(r, now)]
          /\ QueuedRow(r, now).route = mission[r].route
          BY <1>0, QueuedIs
    <3>2. mission'[r] = IF mission[r].st = "claimed" THEN QueuedRow(r, now) ELSE mission[r]
          BY <1>0, <1>9, <3>1 DEF RoutesCrash
    <3> QED BY <3>1, <3>2
  <2> QED BY <1>s, <2>1 DEF RouteStays
<1>10. ASSUME NEW p \in Handlers,
              \/ \E r \in Missions : Collect(p, r)
              \/ \E ready \in BOOLEAN : Look(p, ready) \/ Exhausted(p, ready)
              \/ \E d \in Cooldowns : Failed(p, d)
              \/ ClearRoute(p) \/ Late(p) \/ FailedOtherwise(p) \/ Record(p) \/ RateLimited(p)
       PROVE  RouteOnce
      BY <1>10, <1>u
         DEF Collect, Look, Exhausted, Failed, ClearRoute, Late, FailedOtherwise, Record, RateLimited
<1>11. ASSUME TimePasses PROVE RouteOnce
      BY <1>11, <1>u DEF TimePasses
<1> QED BY <1>1, <1>2, <1>3, <1>4, <1>5, <1>6, <1>7, <1>8, <1>9, <1>10, <1>11, SwitchIsOnce
       DEF RouteNext

\* The invariant of the routes holds initially and is kept.
LEMMA RouteStarts == RouteInit => RouteInv
PROOF
<1> SUFFICES ASSUME RouteInit PROVE RouteInv
    OBVIOUS
<1> DEFINE row == [st |-> "queued", route |-> "primary", att |-> 0, after |-> 0,
                   locked |-> FALSE, out |-> "", obs |-> 0, sel |-> 0, rest |-> 0]
<1>1. row \in MissionRow /\ row.obs = 0 /\ row.sel = 0 /\ row.rest = 0
      BY DEF MissionRow, MissionStates, Routes
<1>2. mission = [r \in Missions |-> row]
      BY DEF RouteInit
<1> HIDE DEF row
<1>3. RouteTypes
      BY <1>1, <1>2 DEF RouteInit, RouteTypes
<1>4. AttemptsTrue
      BY <1>1, <1>2 DEF AttemptsTrue, AttemptTrue, Chosen
<1>5. ResetsKnown
  <2>1. now = 0 /\ \A x \in Routes : rest[x] = 0
        BY DEF RouteInit
  <2>2. \A x \in Routes : rest[x] <= now
        BY <2>1
  <2> QED BY <2>2 DEF ResetsKnown
<1>6. \A p \in Handlers : thread[p] = NoMission /\ thread[p].pc = "idle"
      BY DEF RouteInit, NoMission
<1>7. AttemptsBegun /\ ChoiceOpen /\ OneChooses /\ NothingToClear
      BY <1>6 DEF AttemptsBegun, ChoiceOpen, OneChooses, NothingToClear, Choosing
<1> QED BY <1>3, <1>4, <1>5, <1>7 DEF RouteInv

LEMMA RouteInvStep == RouteInv /\ [RouteNext]_routeVars => RouteInv'
PROOF
<1> SUFFICES ASSUME RouteInv, [RouteNext]_routeVars PROVE RouteInv'
    OBVIOUS
<1>1. CASE RouteNext
  <2>1. ASSUME NEW p \in Handlers, NEW r \in Missions, Claim(p, r) \/ Collect(p, r)
        PROVE  RouteInv'
        BY <2>1, ClaimStep, CollectStep
  <2>2. ASSUME NEW p \in Handlers, Select(p) \/ Skip(p) \/ Switch(p) \/ Wait(p) \/ Invoke(p)
        PROVE  RouteInv'
        BY <2>2, SelectStep, SkipStep, SwitchStep, WaitStep, InvokeStep
  <2>3. ASSUME NEW p \in Handlers, NEW ready \in BOOLEAN, Look(p, ready) \/ Exhausted(p, ready)
        PROVE  RouteInv'
        BY <2>3, LookStep, ExhaustedStep
  <2>4. ASSUME NEW p \in Handlers,
               Completed(p) \/ ClearRoute(p) \/ Late(p) \/ FailedOtherwise(p) \/ Record(p)
        PROVE  RouteInv'
        BY <2>4, CompletedStep, ClearRouteStep, GoingOn, RecordStep
  <2>5. ASSUME NEW p \in Handlers, NEW d \in Cooldowns, Failed(p, d) PROVE RouteInv'
        BY <2>5, FailedStep
  <2>6. ASSUME NEW p \in Handlers, SwitchFailed(p) \/ RateLimited(p) \/ Fail(p)
        PROVE  RouteInv'
        BY <2>6, SwitchStep, GoingOn, FailStep
  <2> QED BY <1>1, <2>1, <2>2, <2>3, <2>4, <2>5, <2>6, MissionStep, RoutesCrashStep, TimeStep
         DEF RouteNext
<1>2. CASE UNCHANGED routeVars
      BY <1>2 DEF routeVars, RouteInv, RouteTypes, ResetsKnown, AttemptsTrue, AttemptTrue, Chosen,
                  AttemptsBegun, ChoiceOpen, OneChooses, NothingToClear, Choosing, Exact, Mine
<1> QED BY <1>1, <1>2

LEMMA RouteInvHolds == RouteSpec => []RouteInv
PROOF BY RouteStarts, RouteInvStep, PTL DEF RouteSpec

\* No attempt is invoked on a route that rests, and a run changes its route once at most
\* (record_provider_route_failure, switch_worker_profile_and_requeue_run).
THEOREM RoutesRestAndSwitchOnce == RouteSpec => CircuitsRouteOnce
PROOF
<1>1. RouteInv => CooldownKept
  <2> SUFFICES ASSUME RouteInv, NEW r \in Missions, mission[r].st = "running"
               PROVE  mission[r].sel >= mission[r].rest
      BY DEF CooldownKept
  <2> QED BY DEF RouteInv, AttemptsTrue, AttemptTrue, Chosen
<1>2. RouteInv /\ [RouteNext]_routeVars => [RouteOnce]_routeVars
      BY RouteOnceStep
<1> QED BY <1>1, <1>2, RouteInvHolds, PTL DEF RouteSpec, CircuitsRouteOnce, RouteIsExact
=============================================================================
