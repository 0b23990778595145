SPECIFICATION Spec
CONSTANTS
  Fns = {"f", "g"}
  FlagSets <- MCFlagSets
  MaxOps = 5
  MaxThrows = 1
  Watched <- MCWatched
  MaxDeferredOps = 4
  Ancestry <- MCAncestry
  Clickable = {"box"}
  Handlers = {"f"}
  Namespaces = {"", "data-api"}
  NoNamespace = ""
  NoSelector = "-"
  MaxEventOps = 4
  Items = 3
  Interval = TRUE
  Wrap = TRUE
  MaxCarouselOps = 6
  MaxModalOps = 5
  MaxTipOps = 6
  Coordinates = {0, 4, 8}
  TipSizes = {2, 4, 12}
  Paddings = {0, 2}
  Scrolls = {0, 4}
  Panels = {1, 2, 3}
  MaxCollapseOps = 6
  Sections = {1, 2}
  Tops = {2, 6}
  Heights = {8, 12}
  ViewHeight = 4
  Offset = 1
  Steps = {0, 4, 8}
  Panes = {1, 2, 3}
  MaxTabOps = 6
INVARIANTS
  CalledAsPromised
  SettledOnce
  HandledOnce
  SlidesAsAsked
  PageFitsModal
  TipAsWanted
  BesideAndInView
  OnePanelOpen
  LitWhereOneIs
  TabShowsItsPane
CHECK_DEADLOCK FALSE
