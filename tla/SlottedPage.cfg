\* Three bytes an entry, its slot included: four entries, two bytes left over.
CONSTANTS
    Space = 14
    Width = 1
    Value = {v0, v1}
    Blank = v0
    NoItem = NoItem
SPECIFICATION Spec
INVARIANTS TypeOK FreeListIsExact StackInFront
PROPERTIES ImplementsRecordMap
