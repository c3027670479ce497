CONSTANTS
    img1 = img1
    img2 = img2
    Pictures = {img1, img2}
    MaxRows = 2
    MaxIndex = 5
SPECIFICATION Spec
INVARIANTS
    RowsShown
    EnlargedShown
