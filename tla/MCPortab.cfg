\* pktGetNumRadios implements its abstract specification, for every table
\* of up to four entries.
CONSTANTS
  PKT_RADIO_1 = PKT_RADIO_1
  PKT_RADIO_2 = PKT_RADIO_2
  PKT_RADIO_NONE = PKT_RADIO_NONE
  Units <- MCUnits
  NONE = PKT_RADIO_NONE
  MaxList = 4
SPECIFICATION FairSpec
PROPERTY NumRadiosRefinement
