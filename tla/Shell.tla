------------------------------- MODULE Shell -------------------------------
(***************************************************************************)
(* The shell: one loop handles every button that arrived since its last    *)
(* pass, then performs at most one slow action, polls Nest and reads the   *)
(* catalog again.  Buttons only queue what is slow.  The lists on the      *)
(* screen are copies of a catalog that the library daemon and Nest change  *)
(* behind them.  Rows of fixed menus are chosen directly; the lists of     *)
(* consoles and games keep their selection.                                *)
(***************************************************************************)
EXTENDS Screens, SequencesExt

CONSTANTS
  Titles,     \* every game there may be, in title order
  Consoles,   \* every system there may be, in order of their names
  SystemOf,   \* [games -> systems]
  NestGames,  \* games Nest installs and plays
  Stocked,    \* games there are at first
  Modes,      \* PlayMode, "Fresh" among them
  MaxPresses, \* bounds: buttons,
  MaxEdits    \* and changes of files, lists or the catalog

Games   == Range(Titles)
Systems == Range(Consoles)

ASSUME ShellAssumption ==
  /\ Titles \in Seq(Games) /\ IsInjective(Titles)
  /\ Consoles \in Seq(Systems) /\ IsInjective(Consoles)
  /\ SystemOf \in [Games -> Systems] /\ NestGames \subseteq Games /\ Stocked \subseteq Games
  /\ "Fresh" \in Modes /\ None \notin Games /\ MaxPresses \in Nat /\ MaxEdits \in Nat

Views      == {"recent", "favorites"}
BrowseKeys == Views \cup Systems
Radios     == {"Wifi", "Bluetooth"}

VARIABLES
  catalog,    \* [files, present, hidden, favorite, recent, systems, show_hidden]: the
              \* drive, the database and the setting that filters it
  cards,      \* [systems, sel]: lib.systems, system_selected (from 1)
  list,       \* [view, system, games, sel]: lib.games, game_selected (from 1)
  browse,     \* [screen, at]: BrowseState, at = selected_games
  cont,       \* continue_game_id
  menu,       \* [game, shown, back]: menu_game.id, the rest of menu_game, game_menu_return
  details,    \* the game lib.details is of, None unless details_ready
  options,    \* launch_options_return_screen
  ui,         \* [screen, back, confirm, running, redraw]: UIState, tools_exit_confirm
  pending,    \* [tool, scrape, radios, launch, mode, retroarch]: what is queued
  scraping,   \* games left to scrape, 0 unless scrape_active
  nest,       \* [busy, changed, launch]: the controller
  phase,      \* of the loop
  leaving,    \* the player goes back and presses nothing else
  asked,      \* history: launches asked for, [game, mode], none done since
  last,       \* history: the last browsing screen shown
  presses, edits \* bounds

lists == <<cards, list, cont, menu, details, options>>
work  == <<pending, scraping, nest>>
shellVars  == <<catalog, lists, browse, ui, work, phase, leaving, asked, last, presses, edits>>

-----------------------------------------------------------------------------
(* The catalog's lists, and the copies of them.                            *)

ListSystems(c) == Kept(Consoles, c.systems)

Listed(c, view, system) ==
  LET visible == IF c.show_hidden THEN c.present ELSE c.present \ c.hidden
  IN CASE view = "recent"    -> Kept(c.recent, visible)
       [] view = "favorites" -> Kept(Titles, visible \cap c.favorite)
       [] OTHER              -> Kept(Titles, {g \in visible : SystemOf[g] = system})

(* ListRecentGames(false, 1): hidden games never.                          *)
RefreshContinue(c) ==
  LET recent == Kept(c.recent, c.present \ c.hidden)
  IN IF recent = <<>> THEN None ELSE Head(recent)

ClampSelection(sel, count) == IF count = 0 THEN 1 ELSE IF sel > count THEN count ELSE sel

(* The console is found again by its id.                                   *)
LoadSystems(c) ==
  LET new == ListSystems(c)
  IN [systems |-> new,
      sel |-> IF cards.sel \in DOMAIN cards.systems /\ Contains(new, cards.systems[cards.sel])
              THEN CHOOSE i \in DOMAIN new : new[i] = cards.systems[cards.sel]
              ELSE ClampSelection(cards.sel, Len(new))]

BrowseKey(l) == IF l.view = "system" THEN l.system ELSE l.view

Selected(l) == IF l.games = <<>> THEN None ELSE l.games[l.sel]

RememberCurrentGame(b, l) ==
  IF l.games = <<>> THEN b ELSE [b EXCEPT !.at[BrowseKey(l)] = Selected(l)]

(* Mutant: the row is kept, whatever game is on it.                        *)
RestoreGameSelectionByRow(l, b) == [l EXCEPT !.sel = ClampSelection(l.sel, Len(l.games))]

RestoreGameSelection(l, b) ==
  LET saved == b.at[BrowseKey(l)]
  IN [l EXCEPT !.sel = IF saved \in Range(l.games) THEN CHOOSE i \in DOMAIN l.games : l.games[i] = saved
                       ELSE ClampSelection(l.sel, Len(l.games))]

LoadGames(c, l, b) ==
  RestoreGameSelection([l EXCEPT !.games = Listed(c, l.view, l.system)], b)

(* RememberBrowse.                                                         *)
Remembered ==
  [RememberCurrentGame(browse, list) EXCEPT
     !.screen = IF ui.screen = "Systems" THEN "systems"
                ELSE IF ui.screen = "GameList" THEN "games" ELSE @]
ReloadGameList(c) == LoadGames(c, list, RememberCurrentGame(browse, list))

SelectSystem(s) ==
  LoadGames(catalog, [view |-> "system", system |-> s, games |-> <<>>, sel |-> 1],
            RememberCurrentGame(browse, list))

(* RefreshSelectedGameDetails, which only the system's view needs.         *)
DetailsOf(l) == IF l.view = "system" THEN Selected(l) ELSE details

-----------------------------------------------------------------------------
(* main and the start of RunUiLoop, with nothing remembered but one game   *)
(* played.                                                                 *)
ShellInit ==
  /\ \E recent \in {<<g>> : g \in Stocked} :
       catalog = [files |-> Stocked, present |-> Stocked, hidden |-> {}, favorite |-> {},
                  recent |-> recent, systems |-> {SystemOf[g] : g \in Stocked}, show_hidden |-> FALSE]
  /\ \E s \in catalog.systems :
       /\ cards = [systems |-> ListSystems(catalog),
                   sel |-> CHOOSE i \in DOMAIN ListSystems(catalog) : ListSystems(catalog)[i] = s]
       /\ list = [view |-> "system", system |-> s, games |-> Listed(catalog, "system", s), sel |-> 1]
  /\ browse = [screen |-> "systems", at |-> [k \in BrowseKeys |-> None]]
  /\ cont = RefreshContinue(catalog)
  /\ menu = [game |-> None, shown |-> None, back |-> "GameList"]
  /\ details = Selected(list) /\ options = "Systems"
  /\ ui = [screen |-> "Home", back |-> "Systems", confirm |-> FALSE, running |-> TRUE, redraw |-> TRUE]
  /\ pending = [tool |-> None, scrape |-> FALSE, radios |-> {}, launch |-> None, mode |-> "Fresh",
                retroarch |-> FALSE]
  /\ scraping = 0
  /\ nest = [busy |-> FALSE, changed |-> FALSE, launch |-> None]
  /\ phase = "input" /\ leaving = FALSE /\ asked = {} /\ last = <<"Systems">>
  /\ presses = 0 /\ edits = 0

-----------------------------------------------------------------------------
(* HandleButton.                                                           *)

(* What Browse returns to: a screen, and the list when it shows one.       *)
Shown(u, l) == IF u.screen = "GameList" THEN <<"GameList", l.view, BrowseKey(l)>> ELSE <<u.screen>>
KeepLast ==
  last' = IF ui'.screen \in {"Systems", "GameList"} THEN Shown(ui', list') ELSE last

(* Buttons are ignored while a tool or a scrape waits to begin.            *)
Accepts == phase = "input" /\ ui.running /\ pending.tool = None /\ ~pending.scrape

(* Every button begins with RememberBrowse.                                *)
Remember == browse' = Remembered

Press ==
  /\ Accepts /\ ~leaving /\ presses < MaxPresses
  /\ presses' = presses + 1 /\ Remember
  /\ UNCHANGED <<phase, leaving, edits>>

PressBack ==
  /\ Accepts /\ (leaving \/ presses < MaxPresses)
  /\ presses' = (IF leaving THEN presses ELSE presses + 1) /\ Remember
  /\ UNCHANGED <<phase, leaving, edits, asked>>

On(screen) == ui.screen = screen
Go(screen) == ui' = [ui EXCEPT !.screen = screen, !.redraw = TRUE]
GoFrom(screen, back) == ui' = [ui EXCEPT !.screen = screen, !.back = back, !.redraw = TRUE]
Stay == Go(ui.screen)

GoHome(back) ==
  GoFrom("Home", back) /\ cont' = RefreshContinue(catalog) /\ UNCHANGED <<cards, list, menu, details, options>>

(* Mutant: it returns where Home would.                                    *)
OpenGameMenuFromHome(g) == menu' = [game |-> g, shown |-> g, back |-> ui.back]
OpenGameMenu(g) ==
  menu' = [game |-> g, shown |-> g, back |-> IF On("Details") THEN menu.back ELSE ui.screen]

(* Nest: its own buttons are the controller's; here one plays a game, one  *)
(* starts a job, and one leaves.                                           *)
NestPlays(g) ==
  /\ On("Nest") /\ Press /\ Stay
  /\ nest' = [nest EXCEPT !.launch = g]
  /\ asked' = asked \cup {[game |-> g, mode |-> "Fresh"]}
  /\ UNCHANGED <<catalog, lists, pending, scraping>>
NestJob ==
  /\ On("Nest") /\ Press /\ Stay
  /\ nest' = [nest EXCEPT !.busy = TRUE]
  /\ UNCHANGED <<catalog, lists, pending, scraping, asked>>
NestLeaves ==
  /\ On("Nest") /\ PressBack /\ Go("Home")
  /\ cont' = RefreshContinue(catalog)
  /\ UNCHANGED <<catalog, cards, list, menu, details, options, work>>

ScrapeBack ==
  /\ On("ScrapeProgress") /\ PressBack /\ Go("Settings") /\ scraping' = 0
  /\ UNCHANGED <<catalog, lists, pending, nest>>
ScrapeDone ==
  /\ On("ScrapeProgress") /\ scraping = 0 /\ Press /\ Go("Settings")
  /\ UNCHANGED <<catalog, lists, work, asked>>

HasMenus == ui.screen \notin {"Nest", "ScrapeProgress"}
GoUnconfirmed(screen) == ui' = [ui EXCEPT !.screen = screen, !.confirm = FALSE, !.redraw = TRUE]

(* Start: the contextual menu, or Home and back.                           *)
PressStart ==
  /\ HasMenus /\ Press
  /\ UNCHANGED <<catalog, cards, list, details, options, work, asked>>
  /\ \/ /\ On("GameList") /\ list.games # <<>> /\ GoUnconfirmed("GameMenu")
        /\ OpenGameMenu(Selected(list)) /\ UNCHANGED cont
     \/ /\ \E p \in {<<"Details", "GameMenu">>, <<"GameMenu", menu.back>>, <<"Systems", "SystemMenu">>,
                     <<"SystemMenu", "Systems">>, <<"Home", ui.back>>} :
             On(p[1]) /\ GoUnconfirmed(p[2])
        /\ UNCHANGED <<cont, menu>>
     \/ /\ ui.screen \notin {"Details", "GameMenu", "Systems", "SystemMenu", "Home"}
        /\ On("GameList") => list.games = <<>>
        /\ ui' = [ui EXCEPT !.screen = "Home", !.back = ui.screen, !.confirm = FALSE, !.redraw = TRUE]
        /\ cont' = RefreshContinue(catalog) /\ UNCHANGED menu

(* Not in the input test, where it ends the test.                          *)
PressSelect ==
  /\ HasMenus /\ Press
  /\ UNCHANGED <<catalog, list, cont, menu, details, options, work, asked>>
  /\ IF On("InputTest") THEN Go("InputSetup") /\ UNCHANGED cards
     ELSE GoUnconfirmed("Systems") /\ cards' = LoadSystems(catalog)

(* Home.                                                                   *)
HomeNest ==
  /\ On("Home") /\ Press
  /\ \/ Go("Nest") /\ nest' = [nest EXCEPT !.busy = TRUE]
     \/ Stay /\ UNCHANGED nest \* not configured
  /\ UNCHANGED <<catalog, lists, pending, scraping, asked>>
HomeContinue ==
  /\ On("Home") /\ Press /\ cont' = RefreshContinue(catalog)
  /\ IF cont' = None THEN Stay /\ UNCHANGED menu ELSE Go("GameMenu") /\ OpenGameMenu(cont')
  /\ UNCHANGED <<catalog, cards, list, details, options, work, asked>>

(* Mutant: the list it returns to is the last console's.                   *)
HomeBrowseSystem ==
  /\ On("Home") /\ Press
  /\ IF browse.screen = "games" THEN Go("GameList") /\ list' = SelectSystem(list.system)
     ELSE Go("Systems") /\ UNCHANGED list
  /\ UNCHANGED <<catalog, cards, cont, menu, details, options, work, asked>>
HomeBrowse ==
  /\ On("Home") /\ Press
  /\ IF browse.screen = "games" THEN Go("GameList") /\ list' = ReloadGameList(catalog)
     ELSE Go("Systems") /\ UNCHANGED list
  /\ UNCHANGED <<catalog, cards, cont, menu, details, options, work, asked>>
HomeView(view) ==
  /\ On("Home") /\ Press /\ Go("GameList")
  /\ list' = LoadGames(catalog, [list EXCEPT !.view = view, !.sel = 1], Remembered)
  /\ UNCHANGED <<catalog, cards, cont, menu, details, options, work, asked>>
HomeTools ==
  /\ On("Home") /\ Press /\ GoUnconfirmed("Tools")
  /\ UNCHANGED <<catalog, lists, work, asked>>
HomeSettings ==
  /\ On("Home") /\ Press /\ Go("Settings") /\ UNCHANGED <<catalog, lists, work, asked>>
HomeBack ==
  /\ On("Home") /\ PressBack /\ Go(ui.back) /\ UNCHANGED <<catalog, lists, work>>

(* Consoles.                                                               *)
MoveCards ==
  /\ On("Systems") /\ cards.systems # <<>> /\ Press /\ Stay
  /\ \E i \in {cards.sel + 1, cards.sel - 1 + Len(cards.systems)} :
       cards' = [cards EXCEPT !.sel = ((i - 1) % Len(cards.systems)) + 1]
  /\ UNCHANGED <<catalog, list, cont, menu, details, options, work, asked>>
OpenSystem ==
  /\ ui.screen \in {"Systems", "SystemMenu"} /\ cards.systems # <<>> /\ Press /\ Go("GameList")
  /\ list' = SelectSystem(cards.systems[cards.sel]) /\ details' = DetailsOf(list')
  /\ UNCHANGED <<catalog, cards, cont, menu, options, work, asked>>
SystemsBack ==
  /\ On("Systems") /\ PressBack /\ GoHome("Systems") /\ UNCHANGED <<catalog, work>>
SystemOptions ==
  /\ On("SystemMenu") /\ cards.systems # <<>> /\ Press /\ Go("LaunchOptions") /\ options' = "SystemMenu"
  /\ UNCHANGED <<catalog, cards, list, cont, menu, details, work, asked>>
SystemHome ==
  /\ On("SystemMenu") /\ Press /\ GoHome("Systems") /\ UNCHANGED <<catalog, work, asked>>
SystemMenuBack ==
  /\ On("SystemMenu") /\ PressBack /\ Go("Systems") /\ UNCHANGED <<catalog, lists, work>>

(* Games.                                                                  *)
MoveGames ==
  /\ On("GameList") /\ list.games # <<>> /\ Press /\ Stay
  /\ \E i \in {list.sel + 1, list.sel - 1 + Len(list.games)} :
       list' = [list EXCEPT !.sel = ((i - 1) % Len(list.games)) + 1]
  /\ details' = DetailsOf(list')
  /\ UNCHANGED <<catalog, cards, cont, menu, options, work, asked>>
SwitchSystem ==
  /\ On("GameList") /\ list.view = "system" /\ cards.systems # <<>> /\ Press /\ Stay
  /\ \E i \in {cards.sel + 1, cards.sel - 1 + Len(cards.systems)} :
       cards' = [cards EXCEPT !.sel = ((i - 1) % Len(cards.systems)) + 1]
  /\ list' = SelectSystem(cards.systems[cards'.sel]) /\ details' = DetailsOf(list')
  /\ UNCHANGED <<catalog, cont, menu, options, work, asked>>
ChooseGame ==
  /\ On("GameList") /\ list.games # <<>> /\ Press /\ Go("GameMenu") /\ OpenGameMenu(Selected(list))
  /\ UNCHANGED <<catalog, cards, list, cont, details, options, work, asked>>
GamesBack ==
  /\ On("GameList") /\ PressBack
  /\ IF list.view = "system" THEN Go("Systems") /\ cards' = LoadSystems(catalog)
     ELSE Go("Home") /\ UNCHANGED cards
  /\ UNCHANGED <<catalog, list, cont, menu, details, options, work>>

(* The menu of a game; which modes it offers is PlaySession's.             *)
MenuPlays(mode) ==
  /\ On("GameMenu") /\ Press /\ Stay
  /\ pending' = [pending EXCEPT !.mode = mode, !.launch = menu.game]
  /\ asked' = asked \cup {[game |-> menu.shown, mode |-> mode]}
  /\ UNCHANGED <<catalog, lists, scraping, nest>>
MenuDetails ==
  /\ On("GameMenu") /\ Press /\ Go("Details") /\ details' = menu.shown
  /\ UNCHANGED <<catalog, cards, list, cont, menu, options, work, asked>>
Toggle(set, g) == IF g \in set THEN set \ {g} ELSE set \cup {g}
MenuFavorite ==
  /\ On("GameMenu") /\ Press /\ Stay
  /\ catalog' = [catalog EXCEPT !.favorite = Toggle(@, menu.game)]
  /\ menu' = [menu EXCEPT !.shown = menu.game]
  /\ list' = ReloadGameList(catalog') /\ cards' = LoadSystems(catalog')
  /\ UNCHANGED <<cont, details, options, work, asked>>
MenuHide ==
  /\ On("GameMenu") /\ Press /\ Go(menu.back)
  /\ catalog' = [catalog EXCEPT !.hidden = Toggle(@, menu.game)]
  /\ list' = ReloadGameList(catalog') /\ cards' = LoadSystems(catalog') /\ cont' = RefreshContinue(catalog')
  /\ UNCHANGED <<menu, details, options, work, asked>>
MenuOptions ==
  /\ On("GameMenu") /\ menu.game \in catalog.present /\ Press /\ Go("LaunchOptions")
  /\ options' = "GameMenu"
  /\ UNCHANGED <<catalog, cards, list, cont, menu, details, work, asked>>
MenuHome ==
  /\ On("GameMenu") /\ Press /\ GoHome("GameMenu") /\ UNCHANGED <<catalog, work, asked>>
MenuBack ==
  /\ On("GameMenu") /\ PressBack /\ Go(menu.back) /\ UNCHANGED <<catalog, lists, work>>

(* A does the same.                                                        *)
DetailsBack ==
  /\ On("Details") /\ PressBack /\ Go("GameMenu") /\ UNCHANGED <<catalog, lists, work>>
OptionsBack ==
  /\ On("LaunchOptions") /\ PressBack /\ Go(options)
  /\ menu' = IF options = "GameMenu" THEN [menu EXCEPT !.shown = menu.game] ELSE menu
  /\ UNCHANGED <<catalog, cards, list, cont, details, options, work>>

(* Settings: hidden games, scraping, the input setup.                      *)
SettingsHidden ==
  /\ On("Settings") /\ Press /\ Stay
  /\ catalog' = [catalog EXCEPT !.show_hidden = ~@] /\ list' = ReloadGameList(catalog')
  /\ UNCHANGED <<cards, cont, menu, details, options, work, asked>>
SettingsScrape ==
  /\ On("Settings") /\ Press /\ Go("ScrapeProgress")
  /\ pending' = [pending EXCEPT !.scrape = TRUE] /\ scraping' = 1
  /\ UNCHANGED <<catalog, lists, nest, asked>>
SettingsInput ==
  /\ On("Settings") /\ Press /\ Go("InputSetup") /\ UNCHANGED <<catalog, lists, work, asked>>
SettingsBack ==
  /\ On("Settings") /\ PressBack /\ Go("Home") /\ UNCHANGED <<catalog, lists, work>>
InputTest ==
  /\ On("InputSetup") /\ Press /\ Go("InputTest") /\ UNCHANGED <<catalog, lists, work, asked>>
InputBack ==
  /\ On("InputSetup") /\ PressBack /\ Go("Settings") /\ UNCHANGED <<catalog, lists, work>>

(* Tools.  A moved selection withdraws the question whether to exit.       *)
MoveTools ==
  /\ On("Tools") /\ Press /\ GoUnconfirmed("Tools") /\ UNCHANGED <<catalog, lists, work, asked>>
ToolAction(tool) ==
  /\ On("Tools") /\ ~ui.confirm /\ Press /\ Stay /\ pending' = [pending EXCEPT !.tool = tool]
  /\ UNCHANGED <<catalog, lists, scraping, nest, asked>>
ToolScreen(screen) ==
  /\ On("Tools") /\ ~ui.confirm /\ Press /\ Go(screen) /\ UNCHANGED <<catalog, lists, work, asked>>
ToolRadio(radio) ==
  /\ On("Tools") /\ ~ui.confirm /\ Press /\ Go(radio)
  /\ pending' = [pending EXCEPT !.radios = @ \cup {radio}]
  /\ UNCHANGED <<catalog, lists, scraping, nest, asked>>
ToolRetroArch ==
  /\ On("Tools") /\ ~ui.confirm /\ Press /\ Stay
  /\ pending' = [pending EXCEPT !.retroarch = @ \/ pending.launch = None]
  /\ UNCHANGED <<catalog, lists, scraping, nest, asked>>
ToolExit ==
  /\ On("Tools") /\ Press
  /\ ui' = IF ui.confirm THEN [ui EXCEPT !.running = FALSE, !.redraw = TRUE]
           ELSE [ui EXCEPT !.confirm = TRUE, !.redraw = TRUE]
  /\ UNCHANGED <<catalog, lists, work, asked>>
ToolsBack ==
  /\ On("Tools") /\ PressBack
  /\ GoUnconfirmed(IF ui.confirm THEN "Tools" ELSE "Home")
  /\ UNCHANGED <<catalog, lists, work>>

(* Wi-Fi and Bluetooth queue a slow action at almost any button; module    *)
(* Wireless has them.  The update screen is module Updater's.              *)
RadioAction ==
  /\ ui.screen \in Radios /\ Press /\ Stay
  /\ pending' = [pending EXCEPT !.radios = @ \cup {ui.screen}]
  /\ UNCHANGED <<catalog, lists, scraping, nest, asked>>
ToTools ==
  /\ ui.screen \in Radios \cup {"Update"} /\ PressBack /\ Go("Tools") /\ UNCHANGED <<catalog, lists, work>>

-----------------------------------------------------------------------------
(* The rest of an iteration, in its order.                                 *)

Continues == phase' = "input" /\ UNCHANGED <<leaving, presses, edits>>
Redraw == ui' = [ui EXCEPT !.redraw = TRUE]

EndOfInput ==
  /\ phase = "input" /\ ui.running /\ phase' = "work"
  /\ UNCHANGED <<catalog, lists, browse, ui, work, leaving, asked, presses, edits>>

Scanned(c) == [c EXCEPT !.present = c.files]

(* RunToolAction, deferred: a scan, the identification of games, and what  *)
(* leaves the lists alone.                                                 *)
RunTool ==
  /\ phase = "work" /\ pending.tool # None
  /\ pending' = [pending EXCEPT !.tool = None]
  /\ GoUnconfirmed(ui.screen)
  /\ \E ok \in BOOLEAN :
       /\ catalog' = IF ok /\ pending.tool = "scan" THEN Scanned(catalog) ELSE catalog
       /\ cards' = IF ok /\ pending.tool = "scan" THEN LoadSystems(catalog') ELSE cards
       /\ IF ok /\ pending.tool \in {"scan", "identify"}
          THEN list' = ReloadGameList(catalog') /\ browse' = RememberCurrentGame(browse, list)
          ELSE UNCHANGED <<list, browse>>
  /\ Continues /\ UNCHANGED <<cont, menu, details, options, scraping, nest, asked>>

BeginScrape ==
  /\ phase = "work" /\ pending.tool = None /\ pending.scrape
  /\ pending' = [pending EXCEPT !.scrape = FALSE] /\ scraping' \in 0..2 /\ Redraw
  /\ Continues /\ UNCHANGED <<catalog, lists, browse, nest, asked>>

(* Mutant: the mode stays that of the launch before.                       *)
NestLaunchAsIs(g) == [pending EXCEPT !.launch = g]
NestLaunch(g) == [pending EXCEPT !.launch = g, !.mode = "Fresh"]

(* PollNest.  RefreshNestLibrary scans when Nest changed the library, or   *)
(* to find the game it plays.                                              *)
NestChanged == nest.changed /\ ~nest.busy
NestRefreshes == NestChanged \/ nest.launch \notin catalog.present \cup {None}
PollNest ==
  /\ phase = "work" /\ pending.tool = None /\ ~pending.scrape
  /\ \E ok \in BOOLEAN : catalog' = IF NestRefreshes /\ ok THEN Scanned(catalog) ELSE catalog
  /\ IF NestRefreshes
     THEN /\ cards' = LoadSystems(catalog') /\ list' = ReloadGameList(catalog')
          /\ details' = DetailsOf(list') /\ browse' = RememberCurrentGame(browse, list)
     ELSE UNCHANGED <<cards, list, details, browse>>
  /\ cont' = IF NestChanged THEN RefreshContinue(catalog') ELSE cont
  /\ IF nest.launch \in catalog'.present
     THEN /\ menu' = [menu EXCEPT !.back = "Nest", !.game = nest.launch]
          /\ pending' = NestLaunch(nest.launch)
     ELSE UNCHANGED <<menu, pending>>
  /\ nest' = [busy |-> nest.busy \/ nest.launch # None, changed |-> nest.changed /\ nest.busy, launch |-> None]
  /\ ui' = [ui EXCEPT !.redraw = @ \/ NestRefreshes \/ nest.launch # None]
  /\ phase' = "refresh"
  /\ UNCHANGED <<options, scraping, leaving, asked, presses, edits>>

(* RememberBrowse, and every two seconds the catalog; LibraryUiSignature   *)
(* tells whether to draw.                                                  *)
(* Mutant: the games are left out.                                         *)
LibraryUiSignatureSystems(c, l) == c.systems
LibraryUiSignature(c, l) == <<c.systems, l.games>>

NotDue ==
  /\ phase = "refresh" /\ phase' = "slow" /\ Remember
  /\ UNCHANGED <<catalog, lists, ui, work, leaving, asked, presses, edits>>
RefreshLibrary ==
  /\ phase = "refresh" /\ phase' = "slow" /\ Remember
  /\ cont' = RefreshContinue(catalog) /\ cards' = LoadSystems(catalog)
  /\ IF On("GameList")
     THEN \/ /\ list' = ReloadGameList(catalog) /\ details' = DetailsOf(list') /\ UNCHANGED edits
          \/ \* a read that fails
             /\ edits < MaxEdits /\ edits' = edits + 1
             /\ list' = [list EXCEPT !.games = <<>>] /\ details' = DetailsOf(list')
     ELSE UNCHANGED <<list, details, edits>>
  /\ ui' = [ui EXCEPT !.redraw = @ \/ cont' # cont \/ details' # details
                                   \/ LibraryUiSignature(cards', list') # LibraryUiSignature(cards, list)]
  /\ UNCHANGED <<catalog, menu, options, work, leaving, asked, presses>>

Slices == On("ScrapeProgress") /\ scraping > 0
ScrapeNext ==
  /\ phase = "slow" /\ Slices /\ scraping' \in {0, scraping - 1} /\ Redraw
  /\ details' \in {details, Selected(list)}
  /\ Continues /\ UNCHANGED <<catalog, cards, list, cont, menu, options, browse, pending, nest, asked>>

(* Mutant: the action stays in its slot.                                   *)
RadioDoneNot(radio) == pending
RadioDone(radio) == [pending EXCEPT !.radios = @ \ {radio}]

ExecuteRadio ==
  /\ phase = "slow" /\ ~Slices /\ pending.radios # {} /\ Redraw
  /\ pending' = RadioDone(IF "Wifi" \in pending.radios THEN "Wifi" ELSE "Bluetooth")
  /\ Continues /\ UNCHANGED <<catalog, lists, browse, scraping, nest, asked>>

(* A clean exit makes the game the last one played.                        *)
Launch ==
  /\ phase = "slow" /\ ~Slices /\ pending.radios = {} /\ pending.launch # None
  /\ pending' = [pending EXCEPT !.launch = None] /\ asked' = {}
  /\ \E clean \in BOOLEAN :
       catalog' = IF clean /\ pending.launch \in catalog.present
                  THEN [catalog EXCEPT !.recent =
                          <<pending.launch>> \o Kept(@, Games \ {pending.launch})]
                  ELSE catalog
  /\ cont' = RefreshContinue(catalog') /\ menu' = [menu EXCEPT !.shown = menu.game]
  /\ Go(IF On("Nest") THEN "Nest" ELSE "GameMenu")
  /\ list' = ReloadGameList(catalog') /\ cards' = LoadSystems(catalog')
  /\ browse' = RememberCurrentGame(browse, list)
  /\ Continues /\ UNCHANGED <<details, options, scraping, nest>>

LaunchRetroArch ==
  /\ phase = "slow" /\ ~Slices /\ pending.radios = {} /\ pending.launch = None /\ pending.retroarch
  /\ pending' = [pending EXCEPT !.retroarch = FALSE] /\ Redraw
  /\ Continues /\ UNCHANGED <<catalog, lists, browse, scraping, nest, asked>>

DrawScreen ==
  /\ phase = "slow" /\ ~Slices /\ pending.radios = {} /\ pending.launch = None /\ ~pending.retroarch
  /\ ui' = [ui EXCEPT !.redraw = FALSE]
  /\ Continues /\ UNCHANGED <<catalog, lists, browse, work, asked>>

-----------------------------------------------------------------------------
(* What goes on behind the shell: files come and go, the library daemon    *)
(* scans them, a system is added, a job of Nest ends.  An iteration reads  *)
(* the catalog in one go.                                                  *)

Edit == edits < MaxEdits /\ edits' = edits + 1

FileChanges(g) ==
  /\ Edit /\ catalog' = [catalog EXCEPT !.files = Toggle(@, g)]
  /\ UNCHANGED <<lists, browse, ui, work, phase, leaving, asked, presses>>
DaemonScans ==
  /\ catalog' = Scanned(catalog) /\ UNCHANGED <<lists, browse, ui, work, phase, leaving, asked, presses, edits>>
SystemAppears(s) ==
  /\ Edit /\ s \notin catalog.systems /\ catalog' = [catalog EXCEPT !.systems = @ \cup {s}]
  /\ UNCHANGED <<lists, browse, ui, work, phase, leaving, asked, presses>>
NestJobEnds ==
  /\ nest.busy
  /\ \E changed \in BOOLEAN : nest' = [nest EXCEPT !.busy = FALSE, !.changed = @ \/ changed]
  /\ UNCHANGED <<catalog, lists, browse, ui, pending, scraping, phase, leaving, asked, presses, edits>>

(* The player has had enough.                                              *)
Leave ==
  /\ ~leaving /\ leaving' = TRUE
  /\ UNCHANGED <<catalog, lists, browse, ui, work, phase, asked, presses, edits>>

Back ==
  \/ NestLeaves \/ ScrapeBack \/ HomeBack \/ SystemsBack \/ SystemMenuBack \/ GamesBack \/ MenuBack
  \/ DetailsBack \/ OptionsBack \/ SettingsBack \/ InputBack \/ ToolsBack \/ ToTools

ShellButtons ==
  \/ Back \/ NestJob \/ ScrapeDone \/ PressStart \/ PressSelect \/ HomeNest \/ HomeContinue \/ HomeBrowse
  \/ HomeTools \/ HomeSettings \/ MoveCards \/ OpenSystem \/ SystemOptions \/ SystemHome \/ MoveGames
  \/ SwitchSystem \/ ChooseGame \/ MenuDetails \/ MenuFavorite \/ MenuHide \/ MenuOptions \/ MenuHome
  \/ SettingsHidden \/ SettingsScrape \/ SettingsInput \/ InputTest \/ MoveTools \/ ToolRetroArch
  \/ ToolExit \/ RadioAction
  \/ \E g \in NestGames : NestPlays(g)
  \/ \E view \in Views : HomeView(view)
  \/ \E mode \in Modes : MenuPlays(mode)
  \/ \E tool \in {"scan", "identify", "other"} : ToolAction(tool)
  \/ \E screen \in {"InputSetup", "Update"} : ToolScreen(screen)
  \/ \E radio \in Radios : ToolRadio(radio)

Loop ==
  \/ EndOfInput \/ RunTool \/ BeginScrape \/ PollNest \/ NotDue \/ RefreshLibrary
  \/ ScrapeNext \/ ExecuteRadio \/ Launch \/ LaunchRetroArch \/ DrawScreen

Others ==
  /\ phase = "input"
  /\ \/ \E g \in Games : FileChanges(g)
     \/ DaemonScans \/ NestJobEnds \/ Leave
     \/ \E s \in Systems : SystemAppears(s)

ShellNext == (ShellButtons \/ Loop \/ Others) /\ KeepLast

(* The loop never stops but to exit; a player who leaves presses B until   *)
(* there is nothing to leave.                                              *)
ShellSpec == ShellInit /\ [][ShellNext]_shellVars
ShellFairSpec == ShellSpec /\ WF_shellVars(Loop /\ KeepLast) /\ SF_shellVars(Back /\ KeepLast)

-----------------------------------------------------------------------------
(* README, "Background rescans retain selection when titles are inserted   *)
(* or reordered": the loop reads the list again while games come, go or    *)
(* are played, also after a read that failed or a drive that was away.     *)
SelectionKept ==
  [][phase # "input" \/ catalog' # catalog =>
       LET g == IF list.games = <<>> THEN browse.at[BrowseKey(list)] ELSE Selected(list)
       IN g \in Range(list'.games) => Selected(list') = g]_shellVars

(* README, "Browse games returns to the last browsing view".               *)
BrowseReturns == [][HomeBrowse => Shown(ui', list') = last]_shellVars

(* While the loop waits, the picture is of what a button would act on:     *)
(* whatever changes it asks for a new one.  An empty list shows no row.    *)
Drawn ==
  <<ui.screen, CASE On("Home") -> <<cont>>
                 [] ui.screen \in {"Systems", "SystemMenu"} -> <<cards>>
                 [] On("GameList") ->
                      <<list.view, list.system, list.games, IF list.games = <<>> THEN 0 ELSE list.sel,
                        IF list.view = "system" THEN details ELSE None>>
                 [] On("GameMenu") -> <<menu.shown>> [] On("Details") -> <<details>> [] OTHER -> <<>>>>
NothingStale == [][Drawn' # Drawn => ui'.redraw]_shellVars

(* A launch is of a game and in a mode that were asked for together, by a  *)
(* menu or by Nest, since the launch before.  One exception, which needs   *)
(* more buttons than the run has: a game of Nest's that came up under the  *)
(* menu of another, while a slow action held its launch back, gets the     *)
(* mode chosen there.                                                      *)
AskedTogether(g, mode) == [game |-> g, mode |-> mode] \in asked
TakesAnothersMode(g, mode) ==
  g \in NestGames /\ AskedTogether(g, "Fresh") /\ \E a \in asked : a.mode = mode
LaunchAsAsked ==
  [][pending.launch # None /\ pending'.launch = None =>
       \/ AskedTogether(pending.launch, pending.mode)
       \/ TakesAnothersMode(pending.launch, pending.mode)]_shellVars

(* Whatever waits is done, however much is queued at once.                 *)
QueueEmpties ==
  pending.tool # None \/ pending.launch # None \/ pending.radios # {} \/ pending.retroarch \/ scraping > 0
    ~> \/ ~ui.running
       \/ /\ pending.tool = None /\ pending.launch = None /\ pending.radios = {}
          /\ ~pending.retroarch /\ scraping = 0

(* B alone leads Home from every screen: no two return screens lead to     *)
(* each other.  The input test, which B does not end, is left by Start.    *)
BackReachesHome == leaving ~> (On("Home") \/ On("InputTest") \/ ~ui.running)

=============================================================================
