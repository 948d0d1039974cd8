---------------------------- MODULE Capabilities ----------------------------
(* The library of capabilities and what a workspace holds of it.  A change to a workspace is
   prepared, reviewed by its owner and confirmed later; a confirmed library change merges the
   content of the item and of its dependencies into the workspace's bundle and pushes a grant
   that remembers the bundle before and after.  Only the newest grant can be revoked or
   upgraded, and only while the bundle is the one it left.  Requests that bring a bundle of
   their own read the workspace's bundle, merge and write it back in two steps.

   Published items never change (a version with other content is refused), so the snapshots of
   items that a review keeps cannot differ at the confirmation and are not part of the state;
   of the content of an item only its presence in the bundle is kept.                         *)
EXTENDS Naturals, Sequences, SequencesExt, FiniteSets

CONSTANTS Spaces,      \* workspaces of one owner
          First,       \* the workspaces that exist at the beginning
          Items,       \* versions of library items
          Shelf,       \* the versions published at the beginning, closed under their pins
          Stable,      \* Stable[i]: the stable id of a version
          Version,     \* Version[i]: its number
          Deps,        \* Deps[i]: the versions it pins
          Scopes,      \* Scopes[i]: the scopes it requests
          MaxGrants,   \* bound on grants
          MaxPending,  \* bound on changes under review at a time
          MaxTurns     \* bound on what disturbs the review: status changes, requests, closes, copies

ASSUME LibraryAssumption ==
    /\ First \subseteq Spaces
    /\ Shelf \subseteq Items
    /\ Deps \in [Items -> SUBSET Items]
    /\ \A i \in Shelf : Deps[i] \subseteq Shelf

VARIABLES lib,      \* status of each version
          bundle,   \* each workspace's bundle: library content, account selection, own content
          grants,   \* each workspace's active grants, oldest first
          pending,  \* changes under review
          templates, \* saved templates: the granted items with their scopes, the account selection
          review,   \* what a copied workspace has to review, and what was waived
          account,  \* the owner's provider account: is it ready, and its update stamp
          read,     \* bundles read by requests that will write them back merged
          shut,     \* closed workspaces
          busy,     \* workspaces with a queued or running run
          made,     \* grants made so far
          turns     \* disturbances so far

capVars == <<lib, bundle, grants, pending, templates, review, account, read, shut, busy, made, turns>>

Selections == {"legacy", "personal"}
Absent == [on |-> FALSE]
Bundles == [items : SUBSET Items, sel : Selections, own : BOOLEAN]
Exists(w) == bundle[w] # Absent
NoReview == [items |-> {}, sel |-> FALSE, waived |-> {}]

\* An item with everything that it pins; instances pin at most two levels deep
Plan(i) == {i} \cup UNION {{d} \cup Deps[d] : d \in Deps[i]}
PlanScopes(i, s) == s \cup UNION {Scopes[d] : d \in Plan(i) \ {i}}

CapInit ==
    /\ lib = [i \in Items |-> IF i \in Shelf THEN "available" ELSE "unknown"]
    /\ bundle = [w \in Spaces |-> IF w \in First THEN [items |-> {}, sel |-> "legacy", own |-> FALSE]
                                  ELSE Absent]
    /\ grants = [w \in Spaces |-> <<>>] /\ pending = {} /\ templates = {}
    /\ review = [w \in Spaces |-> NoReview]
    /\ account = [ready |-> TRUE, stamp |-> 0]
    /\ read = [w \in Spaces |-> Absent] /\ shut = {} /\ busy = {}
    /\ made = 0 /\ turns = 0

Turn == turns < MaxTurns /\ turns' = turns + 1

-----------------------------------------------------------------------------
\* The library

\* register_library_item: a new version needs every pinned version available; so does a
\* restored one, all the way down
DepsAvailable(i) == \A d \in Plan(i) \ {i} : lib[d] = "available"

Publish(i) ==
    /\ lib[i] = "unknown" /\ \A d \in Deps[i] : lib[d] = "available"
    /\ lib' = [lib EXCEPT ![i] = "available"]
    /\ UNCHANGED <<bundle, grants, pending, templates, review, account, read, shut, busy, made, turns>>

\* Mutant of Retirable: the grants of the item itself are counted, its dependents are not.
RetirableUngranted(i) ==
    \A w \in Spaces : \A k \in DOMAIN grants[w] : grants[w][k].item # i

\* update_library_status to disabled or removed
Retirable(i) ==
    /\ \A w \in Spaces : \A k \in DOMAIN grants[w] : grants[w][k].item # i
    /\ \A j \in Items \ {i} : lib[j] = "available" => i \notin Deps[j]

SetStatus(i, st) ==
    /\ lib[i] \notin {"unknown", "removed", st} /\ Turn
    /\ IF st = "available" THEN DepsAvailable(i) ELSE Retirable(i)
    /\ lib' = [lib EXCEPT ![i] = st]
    /\ UNCHANGED <<bundle, grants, pending, templates, review, account, read, shut, busy, made>>

-----------------------------------------------------------------------------
\* Preparing a change for review

\* _library_install_plan: the item and everything it pins is available now
Installable(i) == \A d \in Plan(i) : lib[d] = "available"

Ask(c) == pending' = pending \cup {c} /\ Cardinality(pending) < MaxPending /\ c \notin pending

SameStable(w, i) == \E k \in DOMAIN grants[w] : Stable[grants[w][k].item] = Stable[i]

\* A copied capability is reviewed with exactly the scopes it had.
CopiedScopes(w, i) == {r[2] : r \in {q \in review[w].items : q[1] = i /\ i \notin review[w].waived}}

PrepareEnable(w, i, s) ==
    /\ Exists(w) /\ Installable(i) /\ ~SameStable(w, i)
    /\ s # {} /\ s \subseteq Scopes[i]
    /\ CopiedScopes(w, i) # {} => s \in CopiedScopes(w, i)
    /\ Ask([kind |-> "enable", w |-> w, item |-> i, scopes |-> s])
    /\ UNCHANGED <<lib, bundle, grants, templates, review, account, read, shut, busy, made, turns>>

Newest(w) == grants[w][Len(grants[w])]

\* The scopes of an upgrade, with those of its pinned items, are within the grant it replaces.
Narrower(g, i, s) ==
    s \subseteq g.scopes /\ PlanScopes(i, s) \subseteq PlanScopes(g.item, g.scopes)

PrepareUpgrade(w, i, s) ==
    /\ Exists(w) /\ Installable(i) /\ grants[w] # <<>>
    /\ Stable[Newest(w).item] = Stable[i] /\ Version[i] > Version[Newest(w).item]
    /\ s # {} /\ s \subseteq Scopes[i] /\ Narrower(Newest(w), i, s)
    /\ Ask([kind |-> "upgrade", w |-> w, item |-> i, scopes |-> s, gid |-> Newest(w).gid])
    /\ UNCHANGED <<lib, bundle, grants, templates, review, account, read, shut, busy, made, turns>>

PrepareAccount(w, sel) ==
    /\ Exists(w) /\ w \notin shut
    /\ sel = "personal" => account.ready
    /\ Ask([kind |-> "account", w |-> w, sel |-> sel, stamp |-> account.stamp])
    /\ UNCHANGED <<lib, bundle, grants, templates, review, account, read, shut, busy, made, turns>>

PrepareWaiver(w, i) ==
    /\ Exists(w) /\ w \notin shut
    /\ (\E r \in review[w].items : r[1] = i) /\ i \notin review[w].waived
    /\ Ask([kind |-> "waiver", w |-> w, item |-> i])
    /\ UNCHANGED <<lib, bundle, grants, templates, review, account, read, shut, busy, made, turns>>

\* Five minutes later the change can no longer be confirmed.
Expire(c) ==
    /\ c \in pending /\ pending' = pending \ {c}
    /\ UNCHANGED <<lib, bundle, grants, templates, review, account, read, shut, busy, made, turns>>

-----------------------------------------------------------------------------
\* Confirming it

Merged(b, i) == [b EXCEPT !.items = @ \cup Plan(i)]

Grant(w, i, s, prior) ==
    [gid |-> made + 1, item |-> i, scopes |-> s, prior |-> prior, applied |-> Merged(prior, i)]

Resolve(c) == c \in pending /\ pending' = pending \ {c}
Count == made < MaxGrants /\ made' = made + 1

ConfirmEnable(c) ==
    /\ c.kind = "enable" /\ Resolve(c) /\ Count
    /\ Exists(c.w) /\ Installable(c.item) /\ ~SameStable(c.w, c.item)
    /\ LET g == Grant(c.w, c.item, c.scopes, bundle[c.w])
       IN  /\ grants' = [grants EXCEPT ![c.w] = Append(@, g)]
           /\ bundle' = [bundle EXCEPT ![c.w] = g.applied]
    /\ UNCHANGED <<lib, templates, review, account, read, shut, busy, turns>>

\* Mutant of Untouched: a later change of the workspace does not stop the removal.
UntouchedBundle(w) == TRUE

\* The bundle is the one that the newest grant left.
Untouched(w) == bundle[w] = Newest(w).applied

\* The new version starts from the bundle before the old one.
ConfirmUpgrade(c) ==
    /\ c.kind = "upgrade" /\ Resolve(c) /\ Count
    /\ Exists(c.w) /\ Installable(c.item)
    /\ grants[c.w] # <<>> /\ Newest(c.w).gid = c.gid /\ Untouched(c.w)
    /\ Narrower(Newest(c.w), c.item, c.scopes)
    /\ LET g == Grant(c.w, c.item, c.scopes, Newest(c.w).prior)
       IN  /\ grants' = [grants EXCEPT ![c.w] = Append(Front(@), g)]
           /\ bundle' = [bundle EXCEPT ![c.w] = g.applied]
    /\ UNCHANGED <<lib, templates, review, account, read, shut, busy, turns>>

ConfirmAccount(c) ==
    /\ c.kind = "account" /\ Resolve(c)
    /\ Exists(c.w) /\ c.w \notin shut /\ c.w \notin busy
    /\ c.sel = "personal" => account.ready /\ account.stamp = c.stamp
    /\ bundle' = [bundle EXCEPT ![c.w].sel = c.sel]
    /\ UNCHANGED <<lib, grants, templates, review, account, read, shut, busy, made, turns>>

ConfirmWaiver(c) ==
    /\ c.kind = "waiver" /\ Resolve(c)
    /\ Exists(c.w) /\ c.item \notin review[c.w].waived
    /\ review' = [review EXCEPT ![c.w].waived = @ \cup {c.item}]
    /\ UNCHANGED <<lib, bundle, grants, templates, account, read, shut, busy, made, turns>>

\* revoke_workspace_grant
Revoke(w) ==
    /\ grants[w] # <<>> /\ Untouched(w)
    /\ bundle' = [bundle EXCEPT ![w] = Newest(w).prior]
    /\ grants' = [grants EXCEPT ![w] = Front(@)]
    /\ UNCHANGED <<lib, pending, templates, review, account, read, shut, busy, made, turns>>

AccountChanges(b) ==
    /\ account.ready # b /\ Turn
    /\ account' = [ready |-> b, stamp |-> account.stamp + 1]
    /\ UNCHANGED <<lib, bundle, grants, pending, templates, review, read, shut, busy, made>>

-----------------------------------------------------------------------------
\* Work on the workspace

\* _unresolved_duplication_reapprovals: waived, granted with the same scopes, or, for the
\* account, selected
Reviewed(w) ==
    /\ \A r \in review[w].items :
         \/ r[1] \in review[w].waived
         \/ \E k \in DOMAIN grants[w] : grants[w][k].item = r[1] /\ grants[w][k].scopes = r[2]
    /\ review[w].sel => bundle[w].sel = "personal"

\* _ensure_execution_allowed, then the read of a request that brings a bundle
AssignReads(w) ==
    /\ Exists(w) /\ w \notin shut /\ Reviewed(w) /\ read[w] = Absent
    /\ Turn
    /\ read' = [read EXCEPT ![w] = bundle[w]]
    /\ UNCHANGED <<lib, bundle, grants, pending, templates, review, account, shut, busy, made>>

\* The merged bundle replaces the workspace's in the transaction that creates the run.
AssignWrites(w) ==
    /\ read[w] # Absent
    /\ IF w \in shut THEN UNCHANGED <<bundle, busy>>
       ELSE /\ bundle' = [bundle EXCEPT ![w] = [read[w] EXCEPT !.own = TRUE]]
            /\ busy' = busy \cup {w}
    /\ read' = [read EXCEPT ![w] = Absent]
    /\ UNCHANGED <<lib, grants, pending, templates, review, account, shut, made, turns>>

\* A request without a bundle
Assign(w) ==
    /\ Exists(w) /\ w \notin shut /\ Reviewed(w) /\ w \notin busy
    /\ Turn
    /\ busy' = busy \cup {w}
    /\ UNCHANGED <<lib, bundle, grants, pending, templates, review, account, read, shut, made>>

RunEnds(w) ==
    /\ w \in busy /\ busy' = busy \ {w}
    /\ UNCHANGED <<lib, bundle, grants, pending, templates, review, account, read, shut, made, turns>>

Close(w) ==
    /\ Exists(w) /\ w \notin shut
    /\ Turn
    /\ shut' = shut \cup {w} /\ busy' = busy \ {w}
    /\ UNCHANGED <<lib, bundle, grants, pending, templates, review, account, read, made>>

-----------------------------------------------------------------------------
\* Copies and templates

\* _duplicate_bootstrap_bundle keeps the definition of the project and nothing else.
CopiedBundle(b) == [items |-> {}, sel |-> "legacy", own |-> FALSE]

\* _workspace_duplication_reapproval_items: what the copy does not get, to be reviewed
ToReview(w) == {<<grants[w][k].item, grants[w][k].scopes>> : k \in DOMAIN grants[w]}

\* The copy, and the list of what it lost.  A personal account that is not ready is dropped.
Duplicate(w, c) ==
    /\ Exists(w) /\ ~Exists(c) /\ Turn
    /\ bundle' = [bundle EXCEPT ![c] = CopiedBundle(bundle[w])]
    /\ review' = [review EXCEPT ![c] = [items |-> ToReview(w), waived |-> {},
                                        sel |-> bundle[w].sel = "personal" /\ account.ready]]
    /\ UNCHANGED <<lib, grants, pending, templates, account, read, shut, busy, made>>

\* workspace_template_library_refs: what the workspace holds, if it is available now
LibraryRefs(w) == ToReview(w)

SaveTemplate(w) ==
    /\ Exists(w) /\ Turn
    /\ \A k \in DOMAIN grants[w] : lib[grants[w][k].item] = "available"
    /\ templates' = templates \cup {[refs |-> LibraryRefs(w), sel |-> bundle[w].sel]}
    /\ UNCHANGED <<lib, bundle, grants, pending, review, account, read, shut, busy, made>>

\* validate_workspace_template_libraries: every item of the template, with what it pins
TemplateReady(t) == \A r \in t.refs : Installable(r[1])

\* A personal account must be ready; its selection is taken over, the items are to be reviewed.
Instantiate(t, c) ==
    /\ ~Exists(c) /\ Turn /\ TemplateReady(t)
    /\ t.sel = "personal" => account.ready
    /\ bundle' = [bundle EXCEPT ![c] = [items |-> {}, sel |-> t.sel, own |-> FALSE]]
    /\ review' = [review EXCEPT ![c] = [items |-> t.refs, waived |-> {}, sel |-> FALSE]]
    /\ UNCHANGED <<lib, grants, pending, templates, account, read, shut, busy, made>>

-----------------------------------------------------------------------------

CapNext ==
    \/ \E i \in Items : Publish(i) \/ \E st \in {"available", "disabled", "removed"} : SetStatus(i, st)
    \/ \E w \in Spaces, i \in Items :
         \/ \E s \in SUBSET Scopes[i] : PrepareEnable(w, i, s) \/ PrepareUpgrade(w, i, s)
         \/ PrepareWaiver(w, i)
    \/ \E w \in Spaces, sel \in Selections : PrepareAccount(w, sel)
    \/ \E c \in pending : Expire(c) \/ ConfirmEnable(c) \/ ConfirmUpgrade(c) \/ ConfirmAccount(c)
                          \/ ConfirmWaiver(c)
    \/ \E b \in BOOLEAN : AccountChanges(b)
    \/ \E w \in Spaces : Revoke(w) \/ AssignReads(w) \/ AssignWrites(w) \/ Assign(w) \/ RunEnds(w)
                         \/ Close(w) \/ SaveTemplate(w)
    \/ \E w, c \in Spaces : Duplicate(w, c)
    \/ \E t \in templates, c \in Spaces : Instantiate(t, c)

CapSpec == CapInit /\ [][CapNext]_capVars

-----------------------------------------------------------------------------
\* Properties

(* A granted capability stays usable: the operators of the library can neither disable nor
   remove an item that a workspace holds, nor anything it pins at any depth, in whatever order
   versions are published, disabled, restored, granted and revoked. *)
GrantsStayAvailable ==
    \A w \in Spaces : \A k \in DOMAIN grants[w] : Installable(grants[w][k].item)

(* Removing or upgrading a capability undoes exactly that capability: whatever the workspace
   changed since, its account selection, its own content and the content of other grants, is
   kept, although the bundle is set back to one that was saved long before. *)
Exactly ==
    \A w \in Spaces :
        grants[w] # <<>> /\ (Len(grants'[w]) < Len(grants[w]) \/ Newest(w).gid # Last(grants'[w]).gid)
                         /\ Len(grants'[w]) <= Len(grants[w])
          => /\ bundle'[w].sel = bundle[w].sel /\ bundle'[w].own = bundle[w].own
             /\ bundle[w].items \ bundle'[w].items \subseteq Plan(Newest(w).item)

RemovalIsExact == [][Exactly]_capVars

(* What a workspace was granted stays available in the library (set_library_item_status), and the
   removal of a grant or an upgrade takes away exactly what it names (revoke_workspace_grant,
   confirm_pending_change).  Not covered: an assignment may write a stale bundle over the content of
   a grant (assign_run). *)
LibraryExact == []GrantsStayAvailable /\ RemovalIsExact
=============================================================================
