---------------------------- MODULE MCDisclosure ----------------------------
EXTENDS Disclosure
CONSTANTS d1, d2

MCKinds    == {"ideation", "predatory", "bullying"}
MCAlerting == {"ideation", "predatory"}
MCRerouted == {"predatory"}
=============================================================================
