SPECIFICATION KeysSpec
INVARIANTS ChordIsHeld
