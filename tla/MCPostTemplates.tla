--------------------------- MODULE MCPostTemplates ---------------------------
EXTENDS PostTemplates
NearShift == {<<2, 3>>}
TwoRules == {{2, 4}, {4}}
OneRule == {{2, 4}}
Plain == {[annOn |-> TRUE, ai |-> {}], [annOn |-> FALSE, ai |-> {"main"}]}
Mixed == {[annOn |-> TRUE, ai |-> {"main"}]}
=============================================================================
