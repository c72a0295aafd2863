-------------------------------- MODULE Tabs --------------------------------
(***************************************************************************)
(* The page tabs of one browser tab: the tab store and the router.         *)
(*                                                                         *)
(* A navigation takes a while and the next one replaces it.  The store's   *)
(* functions change the active tab at once and then navigate; the effect   *)
(* of PageTabs adds and activates a tab when another page is on display.   *)
(* A tab is its page: titles and icons are left out.  RouteProgressBar     *)
(* counts a navigation that a link starts among the requests of the        *)
(* progress bar, and takes it off when another page is on display.         *)
(***************************************************************************)
EXTENDS Naturals, Sequences, SequencesExt

CONSTANTS
    Page,        \* the pages, path and query (the dashboard has none)
    Dashboard,   \* the page whose tab cannot be closed
    Away,        \* no page: the login page, no navigation
    MaxMarks     \* bound: the navigations in the progress bar's count

ASSUME TabsAssumption == Dashboard \in Page /\ Away \notin Page /\ MaxMarks \in Nat

VARIABLES
    tabs,        \* the tabs from left to right
    activeTab,   \* activeTabId
    shown,       \* the page on display
    going,       \* the page the router is loading
    navigating,  \* isNavigatingRef
    marks,       \* the navigations in the progress bar's count, beside WebClient's calls
    returned     \* history: the page on display has replaced a navigation away from it

progress == <<navigating, marks>>
tabVars == <<tabs, activeTab, shown, going, progress, returned>>

-----------------------------------------------------------------------------
At(p) == CHOOSE i \in DOMAIN tabs : tabs[i] = p

\* tabs.filter: the tabs of these pages, in their order.
Filtered(pages) ==
    LET first[n \in 0 .. Len(tabs)] ==
          IF n = 0 THEN <<>>
          ELSE IF tabs[n] \in pages THEN Append(first[n - 1], tabs[n]) ELSE first[n - 1]
    IN  first[Len(tabs)]

AddTab(p) ==
    /\ tabs' = IF p \in ToSet(tabs) THEN tabs ELSE Append(tabs, p)
    /\ activeTab' = p

\* Mutant of Activate: the tab is only marked.
ActivateOnly(p) == activeTab' = p /\ UNCHANGED going

\* set and navigate.
Activate(p) == activeTab' = p /\ going' = p

TabsInit ==
    /\ tabs = <<Dashboard>> /\ activeTab = Dashboard
    /\ shown = Dashboard /\ going = Away /\ returned = FALSE
    /\ navigating = FALSE /\ marks = 0

-----------------------------------------------------------------------------
(* The router.                                                              *)

\* A link of a page, of the sidebar or of a tab.
Click(p) ==
    /\ shown # Away
    /\ going' = p
    /\ IF p = shown THEN UNCHANGED progress
       ELSE marks < MaxMarks /\ marks' = marks + 1 /\ navigating' = TRUE
    /\ UNCHANGED <<tabs, activeTab, shown, returned>>

\* The browser's history.
GoBack(p) ==
    /\ shown # Away
    /\ going' = p
    /\ UNCHANGED <<tabs, activeTab, shown, progress, returned>>

\* Another page is on display: one navigation is over.
RouteChanged ==
    /\ navigating' = FALSE
    /\ marks' = IF navigating THEN marks - 1 ELSE marks

PageLoaded == navigating' = FALSE /\ marks' = 0

\* The effects run only if the page is another one.
Arrive ==
    /\ going # Away
    /\ going' = Away
    /\ shown' = going
    /\ IF going = shown
       THEN UNCHANGED <<tabs, activeTab, progress>> /\ returned' = (activeTab # shown)
       ELSE AddTab(going) /\ RouteChanged /\ returned' = FALSE

\* The tabs are in session storage.
ReloadPage ==
    /\ shown # Away
    /\ AddTab(shown) /\ going' = Away /\ returned' = FALSE
    /\ PageLoaded
    /\ UNCHANGED shown

LeavePages ==
    /\ shown # Away
    /\ shown' = Away /\ going' = Away /\ returned' = FALSE

ResetTabs == tabs' = <<Dashboard>> /\ activeTab' = Dashboard

Logout == LeavePages /\ ResetTabs /\ RouteChanged

\* The end of a session loads the login page anew; who leaves by the address
\* bar finds the tabs again.
EndSession == LeavePages /\ ResetTabs /\ PageLoaded
LeaveByAddress == LeavePages /\ PageLoaded /\ UNCHANGED <<tabs, activeTab>>

EnterPages(p) ==
    /\ shown = Away
    /\ shown' = p /\ AddTab(p)
    /\ UNCHANGED <<going, progress, returned>>

-----------------------------------------------------------------------------
(* The store's functions, on the tabs as they are shown.                    *)

\* Mutant of Neighbour: the index is the one before the removal.
NeighbourShifted(p) == tabs[At(p)]

\* The tab to the left: the dashboard's is the leftmost.
Neighbour(p) == tabs[At(p) - 1]

CloseTab(p) ==
    /\ shown # Away /\ p \in ToSet(tabs) \ {Dashboard}
    /\ tabs' = Filtered(Page \ {p})
    /\ IF activeTab = p THEN Activate(Neighbour(p)) ELSE UNCHANGED <<activeTab, going>>
    /\ UNCHANGED <<shown, progress, returned>>

\* The menu closes the others of the active tab, and those to its right.
CloseOthers ==
    /\ shown # Away
    /\ tabs' = Filtered({Dashboard, activeTab})
    /\ UNCHANGED <<activeTab, shown, going, progress, returned>>

CloseRight ==
    /\ shown # Away
    /\ tabs' = Filtered({Dashboard} \union {tabs[i] : i \in 1 .. At(activeTab)})
    /\ UNCHANGED <<activeTab, shown, going, progress, returned>>

CloseAll ==
    /\ shown # Away
    /\ tabs' = <<Dashboard>>
    /\ Activate(Dashboard)
    /\ UNCHANGED <<shown, progress, returned>>

TabsNext ==
    \/ \E p \in Page : Click(p) \/ GoBack(p) \/ CloseTab(p) \/ EnterPages(p)
    \/ Logout \/ EndSession \/ LeaveByAddress
    \/ Arrive \/ ReloadPage \/ CloseOthers \/ CloseRight \/ CloseAll

TabsSpec == TabsInit /\ [][TabsNext]_tabVars

-----------------------------------------------------------------------------
(* Properties.                                                              *)

\* The dashboard's tab is the leftmost, a page has one tab, and the active tab
\* is one of the tabs, whatever is closed while which page is loading.
TabsKept ==
    /\ tabs \in Seq(Page) /\ activeTab \in ToSet(tabs)
    /\ {shown, going} \subseteq Page \union {Away}
    /\ navigating \in BOOLEAN /\ marks \in 0..MaxMarks /\ returned \in BOOLEAN
    /\ tabs[1] = Dashboard
    /\ \A i, j \in DOMAIN tabs : tabs[i] = tabs[j] => i = j

\* When nothing is loading the active tab is the page on display, unless the
\* page was asked for again while the router was leaving it for another tab.
ActiveIsShown == shown # Away /\ going = Away /\ ~returned => activeTab = shown

\* What route-progress-bar.tsx says of its effect: the navigation's progress
\* ends when the route has changed.
RouteEndsProgress == [][shown' # shown => marks' = 0]_tabVars
=============================================================================
