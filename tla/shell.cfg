\* Three pages, two languages, three words to search for; four acts.
SPECIFICATION Spec
CONSTANTS
  Items <- ThreeItems
  SidebarOnly = 2
  English <- SmallEnglish
  Localised <- SmallLocalised
  Supported = {"en", "hi"}
  BaseOf <- SmallBases
  Browsers <- TwoBrowsers
  MaxActs = 4
  MaxToasts = 2
PROPERTIES PaletteOpensHighlighted PreferencesHold ToastsGo
CHECK_DEADLOCK FALSE
