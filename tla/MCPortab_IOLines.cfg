\* pktReadIOlines packs LINE_GPIO_PIN2 into bit 0, over LINE_GPIO_PIN1.
CONSTANTS
  PKT_RADIO_1 = PKT_RADIO_1
  PKT_RADIO_2 = PKT_RADIO_2
  PKT_RADIO_NONE = PKT_RADIO_NONE
  Units <- MCUnits
  NONE = PKT_RADIO_NONE
  MaxList = 4
SPECIFICATION Spec
INVARIANT IOLinesDecodable
