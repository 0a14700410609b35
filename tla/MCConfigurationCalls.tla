------------------------ MODULE MCConfigurationCalls ------------------------
EXTENDS ConfigurationCalls

\* two spellings of one name, two objects of one spelling, and a standard tag
MCNames == {"@remarks", "@custom", "@Custom", "@REMARKS"}
MCUpperCase == [n \in MCNames |-> IF n \in {"@remarks", "@REMARKS"} THEN "@REMARKS" ELSE "@CUSTOM"]
Tag(name, id) == [tagName |-> name, id |-> id]
MCStandardTags == <<Tag("@remarks", 0)>>
MCDefinitions ==
  {Tag("@remarks", 0), Tag("@REMARKS", 1), Tag("@custom", 2), Tag("@custom", 3), Tag("@Custom", 4)}
MCCallLists ==
  {<<d>> : d \in MCDefinitions} \union {<<d, e>> : d, e \in MCDefinitions}
=============================================================================
